---- MODULE Spec2Model ----
(***************************************************************************)
(* Model of the monitoring pipeline of mev-bot-watcher:                    *)
(*   - WsConnectorRaw (src/ws_connector.py): the subscription multiplexer, *)
(*     one instance, together with the node on the other end of the        *)
(*     websocket (acknowledgements, event notifications, transport close); *)
(*   - TxWatcher.handle_event (src/tx_watcher.py): the handler registered  *)
(*     for newHeads events;                                                *)
(*   - TelegramNotifier (src/telegram_notifier.py): add_event, force_flush,*)
(*     _flush and run_periodic_flush.                                      *)
(* Spec is the multiplexer with its handlers: run() awaits add_event, so   *)
(* there the notifier acts in one step.  NotifierSpec is the notifier with  *)
(* the tasks that share it (callers of add_event, a caller of force_flush,  *)
(* the run_periodic_flush task), one step per stretch of code between two   *)
(* await points; NotifierCancelSpec adds the cancellation of the periodic   *)
(* task, MonitorSpec the exit of the monitor process (src/main.py).          *)
(* TxAnalyzer (src/tx_analyzer.py) has a specification per method:          *)
(* AnalyzeBlockSpec (analyze_block on a block drawn from Blocks, one step   *)
(* per receipt awaited), ParseReceiptSpec (parse_receipt on a receipt drawn *)
(* from Receipts), GetRelevantBlocksSpec (get_relevant_blocks on a range,   *)
(* a chunk size and a set of logs of the chain, one step per eth_getLogs    *)
(* call awaited) and BackfillSpec (analyze_from_block, one step per call    *)
(* awaited); NormalizeSpec applies normalize_address to address strings     *)
(* and to its own results.  Addresses, topics and quantities are strings of *)
(* characters there, as the node sends them.  FormatReportSpec applies      *)
(* format_report (src/telegram_notifier.py) to the events of a flush; the   *)
(* report is the list of its lines, each line a record of what it prints.   *)
(* The positions of run() are its await points: "connect" (waiting for the *)
(* next connection of the async-for), "send" (awaiting websocket.send),    *)
(* "ack" (awaiting websocket.recv in __proceed_subscriptions), "loop" (top *)
(* of the while-True loop), "fetch" and "notify" (awaiting the handler:    *)
(* handle_event is fetching and analysing the block, resp. has the block   *)
(* summary), "stopped" (run() returned after StopAsyncIteration) and       *)
(* "failed" (an exception left run()).                                     *)
(***************************************************************************)
EXTENDS Integers, Sequences, FiniteSets, TLC

\* ---------------------------------------------------------------- bounds
MaxSubs == 2          \* registrations made through subscribe()
MaxEvents == 2        \* event notifications the node sends per connection
MaxCallers == 2       \* tasks that call add_event on the shared notifier
MaxAdds == 3          \* add_event calls
MaxTime == 4          \* the clock runs from 1 to MaxTime
Period == 2           \* notify_schedule: a boundary at every multiple of Period
AddrLen == 2          \* hexadecimal digits of an address (40 in the source)
MaxTxs == 2           \* transactions of a block
MaxLogs == 2          \* logs of a receipt handed to parse_receipt
MaxBlock == 3         \* start_block and end_block are in 1..MaxBlock
MaxChunk == 3         \* chunk_size is in 1..MaxChunk
MaxChainLogs == 2     \* Transfer logs of the chain that involve the watched address

\* subscription ids the node hands out; one more than there are registrations,
\* so that the ids of two successive connections differ (see ConnectionIds)
SubIds == 1..(MaxSubs + 1)

\* the TxWatcher instances, numbered in the order in which they subscribe
Watchers == 1..MaxSubs

\* TxWatcher.notifier: the odd watchers are built with a notifier, the even
\* ones without
HasNotifier(w) == w % 2 = 1

\* TxWatcher.bot_name
BotName(w) == w

\* TxWatcher.watched_address
WatchedAddress(w) == w

VARIABLES
    subscription_setups,  \* WsConnectorRaw.subscription_setups: list of (type, handler, arg)
    subscriptions,        \* WsConnectorRaw.subscriptions: subscription id -> handler
    pc,                   \* position of run()
    sendIdx,              \* enumerate() position of __send_subscription_requests
    queue_requests,       \* the deque of run(): events buffered during setup
    cur,                  \* the message whose handler is being awaited
    block_summary,        \* handle_event's local block_summary, once analyze_block returned
    inbox,                \* websocket.messages: sent by the node, not yet returned by recv()
    connOpen,             \* the transport of the current connection is open
    srvReqs,              \* eth_subscribe request ids the node got on this connection, in order
    srvAssigned,          \* node side: request id -> subscription id it answered with (0 = error)
    srvEvents,            \* event notifications the node sent on this connection
    srvNextId,            \* the subscription id the node hands out next
    acked,                \* client side: request id -> id read from its acknowledgement (0 = error)
    handled,              \* numbers of the events dispatched on this connection
    running,              \* handler invocations in progress
    lastExit,             \* why the previous connection was left
    srvFirstId,           \* the first subscription id the node hands out on this connection
    pending,              \* TelegramNotifier._pending
    last_sent,            \* TelegramNotifier._last_sent (0 = never)
    reports,              \* reports handed to TelegramNotifier._send
    now,                  \* time.time()
    lock,                 \* TelegramNotifier._lock: the task holding it, 0 = free
    waiters,              \* the tasks waiting for _lock, in the order they asked
    tpc,                  \* position of each task that uses the notifier
    arg,                  \* the event argument of each task's add_event call
    events,               \* the local list events of each task's _flush call
    wake,                 \* when the asyncio.sleep of run_periodic_flush ends
    ncalls,               \* add_event calls made so far
    eth_client,           \* TelegramNotifier.eth_client is set
    eth_price,            \* the local eth_price of the _flush in progress (0 = None)
    analyzer,             \* TxAnalyzer: weth_contract_address and watched_address
    block,                \* analyze_block: its argument
    apc,                  \* position of analyze_block
    txi,                  \* analyze_block: position of the for loop in block['transactions']
    fetched,              \* hashes get_transaction_receipt was called with, in order
    receipts,             \* the receipts get_transaction_receipt returned, in order
    transactions_details, \* analyze_block: its local list
    result,               \* what analyze_block returned
    receipt,              \* parse_receipt: its argument
    ppc,                  \* position of parse_receipt: "idle", "returned" or "raised"
    detail,               \* what parse_receipt returned
    start_block,          \* get_relevant_blocks: its arguments
    end_block,
    chunk_size,
    chain_logs,           \* the Transfer logs of the chain that involve the watched address
    gpc,                  \* position of get_relevant_blocks
    from_block,           \* get_relevant_blocks: the variable of its for loop
    logs_from,            \* get_relevant_blocks: its local logs_from
    block_numbers,        \* get_relevant_blocks: its local set
    queried,              \* the eth_getLogs filters sent to the node, in order
    addrs,                \* the address strings normalize_address is called with
    canon,                \* what normalize_address returned for each of them
    renorm,               \* what normalize_address returned for each of its results
    start_block_number,   \* analyze_from_block: its argument
    bpc,                  \* position of analyze_from_block
    latest_block,         \* analyze_from_block: its local latest_block
    relevant_blocks,      \* analyze_from_block: its local relevant_blocks
    block_number,         \* analyze_from_block: the variable of its for loop (0 before it)
    summary_profit,       \* analyze_from_block: its local summary_profit
    total_profit,         \* the "Total profit" lines analyze_from_block logged
    raised_in,            \* the awaited call whose exception left analyze_from_block
    flushed,              \* format_report: its argument events
    eth_price_usd,        \* format_report: its argument eth_price_usd (0 = None)
    fpc,                  \* position of format_report: "idle" or "returned"
    report                \* the lines of the text format_report returned

taskVars == <<now, lock, waiters, tpc, arg, events, wake, ncalls, eth_client, eth_price>>

vars == <<subscription_setups, subscriptions, pc, sendIdx, queue_requests, cur,
          block_summary, inbox, connOpen, srvReqs, srvAssigned, srvEvents, srvNextId,
          acked, handled, running, lastExit, srvFirstId, pending, last_sent, reports,
          taskVars, analyzer, block, apc, txi, fetched, receipts, transactions_details,
          result, receipt, ppc, detail, start_block, end_block, chunk_size, chain_logs,
          gpc, from_block, logs_from, block_numbers, queried, addrs, canon, renorm,
          start_block_number, bpc, latest_block, relevant_blocks, block_number,
          summary_profit, total_profit, raised_in, flushed, eth_price_usd, fpc, report>>

blockVars == <<block, apc, txi, fetched, receipts, transactions_details, result>>

receiptVars == <<receipt, ppc, detail>>

scanVars == <<start_block, end_block, chunk_size, chain_logs, gpc, from_block, logs_from,
              block_numbers, queried>>

codecVars == <<addrs, canon, renorm>>

backfillVars == <<start_block_number, bpc, latest_block, relevant_blocks, block_number,
                  summary_profit, total_profit, raised_in>>

formatVars == <<flushed, eth_price_usd, fpc, report>>

analyzerVars == <<analyzer, blockVars, receiptVars, scanVars, codecVars, backfillVars,
                  formatVars>>

wsVars == <<subscriptions, pc, sendIdx, queue_requests, cur, block_summary, inbox, connOpen,
            srvReqs, srvAssigned, srvEvents, srvNextId, acked, handled, running,
            lastExit, srvFirstId>>

notifierVars == <<pending, last_sent, reports, taskVars>>

\* ------------------------------------------------------------- messages
EmptyMap == [s \in {} |-> 0]
EmptyAck == [i \in {} |-> 0]

Range(f) == {f[x] : x \in DOMAIN f}

MapPut(f, k, v) == [x \in (DOMAIN f) \cup {k} |-> IF x = k THEN v ELSE f[x]]

\* {"jsonrpc": "2.0", "id": i, "result": sid}
ResultMsg(i, sid) == [kind |-> "result", id |-> i, sub |-> sid, n |-> 0]

\* {"jsonrpc": "2.0", "id": i, "error": {...}}
ErrorMsg(i) == [kind |-> "error", id |-> i, sub |-> 0, n |-> 0]

\* {"jsonrpc": "2.0", "method": "eth_subscription", "params": {"subscription": sid, "result": ...}}
\* k numbers the events of a connection in the order the node sent them
EventMsg(sid, k) == [kind |-> "event", id |-> -1, sub |-> sid, n |-> k]

NoMsg == [kind |-> "none", id |-> -1, sub |-> 0, n |-> 0]

\* the message a handler is awaited for, with where run() took it from
\* ("socket": websocket.recv, "buffer": the deque) and the handler called
NoCur == [msg |-> NoMsg, src |-> "none", handler |-> 0]

\* 'method' in response
HasMethod(m) == m.kind = "event"

\* 'error' in response
HasError(m) == m.kind = "error"

\* response["params"] exists
HasParams(m) == m.kind = "event"

\* ------------------------------------------------- TelegramNotifier / TxEvent
\* self._last_sent: float = 0.0, the "never flushed" sentinel
Never == 0

\* eth_price = None
NoPrice == 0

\* what get_eth_price_usd returns when it returns: a positive price
EthPrice == 2

\* format_report: if eth_price_usd, the USD value is appended to the total
UsdShown(price) == price # NoPrice

\* fields of the TxEvent dataclass that have no default value
TxEventRequired ==
    {"bot_name", "watched_address", "block_number", "tx_count", "fail_count",
     "net_wei_change", "gas_fee_wei"}

\* TxEvent(**kwargs): the generated __init__ raises TypeError when a field
\* without default is not supplied
TxEventInit(kwargs) ==
    [ok |-> TxEventRequired \subseteq DOMAIN kwargs, ev |-> kwargs]

\* variant: _flush goes on with an empty queue
FlushAlways(p) == FALSE

\* if not self._pending: return
FlushReturnsEarly(p) == p = <<>>

\* variant: the queue is copied but not cleared
FlushSwapNoClear(p, t) == [events |-> p, pending |-> p, last_sent |-> t]

\* variant: the queue is swapped but the time of the flush is not stamped
FlushSwapNoStamp(p, t) == [events |-> p, pending |-> <<>>, last_sent |-> Never]

\* variant: the last pending event stays in the queue
FlushSwapKeepLast(p, t) ==
    [events |-> SubSeq(p, 1, Len(p) - 1), pending |-> <<p[Len(p)]>>, last_sent |-> t]

\* _flush, lines 58-60: events = self._pending.copy(); self._pending.clear();
\* self._last_sent = time.time(), for the queue p at time t
FlushSwap(p, t) == [events |-> p, pending |-> <<>>, last_sent |-> t]

\* TelegramNotifier._flush on the notifier state st, from its call to the
\* call of _send
Flush(st) ==
    IF FlushReturnsEarly(st.pending)
    THEN st
    ELSE LET s == FlushSwap(st.pending, now)
         IN  [pending |-> s.pending, last_sent |-> s.last_sent,
              reports |-> Append(st.reports, s.events)]

\* variant: add_event flushes every time
FlushOnEveryAdd(ls) == TRUE

\* variant: add_event never flushes
FlushNeverOnAdd(ls) == FALSE

\* if self._last_sent == 0.0
FlushOnAdd(ls) == ls = Never

\* TelegramNotifier.add_event
AddEvent(st, event) ==
    LET appended == [st EXCEPT !.pending = Append(st.pending, event)]
    IN  IF FlushOnAdd(st.last_sent) THEN Flush(appended) ELSE appended

\* ------------------------------------------------------------- TxWatcher
\* what analyze_block returned for the block of the event: None, or a summary
NoSummary ==
    [some |-> FALSE, has_fails |-> FALSE, block_number |-> 0, tx_count |-> 0,
     fail_count |-> 0, net_wei_change |-> 0, total_gas_wei |-> 0]

BlockSummaries ==
    { NoSummary,
      [some |-> TRUE, has_fails |-> FALSE, block_number |-> 7, tx_count |-> 2,
       fail_count |-> 0, net_wei_change |-> 5, total_gas_wei |-> 3],
      [some |-> TRUE, has_fails |-> TRUE, block_number |-> 8, tx_count |-> 1,
       fail_count |-> 1, net_wei_change |-> -4, total_gas_wei |-> 4] }

\* the keyword arguments handle_event passes to TxEvent
TxEventKwargs(w, bs) ==
    [bot_name |-> BotName(w),
     block_number |-> bs.block_number,
     tx_count |-> bs.tx_count,
     fail_count |-> bs.fail_count,
     net_wei_change |-> bs.net_wei_change,
     gas_fee_wei |-> bs.total_gas_wei]

\* TxWatcher.handle_event of watcher w from "if not block_summary" on:
\* bs is what analyze_block returned, st the notifier state
handle_event(w, bs, st) ==
    IF ~bs.some
    THEN [raised |-> FALSE, exc |-> "none", st |-> st]
    ELSE IF HasNotifier(w)
    THEN LET c == TxEventInit(TxEventKwargs(w, bs))
         IN  IF c.ok
             THEN [raised |-> FALSE, exc |-> "none", st |-> AddEvent(st, c.ev)]
             ELSE [raised |-> TRUE, exc |-> "TypeError", st |-> st]
    ELSE [raised |-> FALSE, exc |-> "none", st |-> st]

NotifierState == [pending |-> pending, last_sent |-> last_sent, reports |-> reports]

\* ------------------------------------------------------------ TxAnalyzer
\* Strings are sequences of one-character strings, so that lower(), strip(),
\* zfill(), the [-40:] slice and int(s, 16) are computed on the characters.

\* the empty string; also stands for a 'to' field that is None
NoAddress == <<>>

\* '0x'
Prefix0x == <<"0", "x">>

\* str.lower() on one character
LowerChar(c) ==
    CASE c = "A" -> "a" [] c = "B" -> "b" [] c = "C" -> "c" [] c = "D" -> "d"
      [] c = "E" -> "e" [] c = "F" -> "f" [] c = "X" -> "x" [] OTHER -> c

\* str.lower()
lower(s) == [i \in 1..Len(s) |-> LowerChar(s[i])]

RECURSIVE lstrip(_)
lstrip(s) == IF s # <<>> /\ Head(s) = " " THEN lstrip(Tail(s)) ELSE s

RECURSIVE rstrip(_)
rstrip(s) == IF s # <<>> /\ s[Len(s)] = " " THEN rstrip(SubSeq(s, 1, Len(s) - 1)) ELSE s

\* str.strip()
strip(s) == rstrip(lstrip(s))

\* s.startswith('0x')
startswith0x(s) == Len(s) >= 2 /\ SubSeq(s, 1, 2) = Prefix0x

\* str.zfill(width): zeros are put on the left until the width is reached
RECURSIVE zfill(_, _)
zfill(s, width) == IF Len(s) >= width THEN s ELSE zfill(<<"0">> \o s, width)

\* s[-n:]
LastChars(s, n) == IF Len(s) <= n THEN s ELSE SubSeq(s, Len(s) - n + 1, Len(s))

\* the value of one hexadecimal digit
HexDigit(c) ==
    CASE c = "0" -> 0 [] c = "1" -> 1 [] c = "2" -> 2 [] c = "3" -> 3
      [] c = "4" -> 4 [] c = "5" -> 5 [] c = "6" -> 6 [] c = "7" -> 7
      [] c = "8" -> 8 [] c = "9" -> 9 [] c = "a" -> 10 [] c = "b" -> 11
      [] c = "c" -> 12 [] c = "d" -> 13 [] c = "e" -> 14 [] c = "f" -> 15

RECURSIVE HexValue(_)
HexValue(s) ==
    IF s = <<>> THEN 0
    ELSE 16 * HexValue(SubSeq(s, 1, Len(s) - 1)) + HexDigit(s[Len(s)])

\* int(s, 16): surrounding blanks, the case of the digits and a leading 0x
\* are accepted
int16(s) ==
    LET a == lower(strip(s))
    IN  HexValue(IF startswith0x(a) THEN SubSeq(a, 3, Len(a)) ELSE a)

\* the hexadecimal digits of n, most significant first
HexChars == <<"0", "1", "2", "3", "4", "5", "6", "7", "8", "9", "a", "b", "c", "d", "e", "f">>

RECURSIVE HexDigits(_)
HexDigits(n) ==
    IF n < 16 THEN <<HexChars[n + 1]>>
    ELSE HexDigits(n \div 16) \o <<HexChars[(n % 16) + 1]>>

\* hex(n) for n >= 0
hex(n) == Prefix0x \o HexDigits(n)

\* variant: the zeros are put on the right
NormalizePadRight(addr) ==
    LET a == lower(strip(addr))
        d == IF startswith0x(a) THEN SubSeq(a, 3, Len(a)) ELSE a
    IN  Prefix0x \o d \o [i \in 1..(AddrLen - Len(d)) |-> "0"]

\* variant: the case of the digits is kept
NormalizeKeepCase(addr) ==
    LET a == strip(addr)
    IN  Prefix0x \o zfill(IF startswith0x(lower(a)) THEN SubSeq(a, 3, Len(a)) ELSE a, AddrLen)

\* normalize_address
normalize_address(addr) ==
    LET a == lower(strip(addr))
    IN  Prefix0x \o zfill(IF startswith0x(a) THEN SubSeq(a, 3, Len(a)) ELSE a, AddrLen)

\* ERC20_TRANSFER_TOPIC, by its first byte
ERC20_TRANSFER_TOPIC == <<"0", "x", "d", "d">>

\* the same hash as a node that answers in upper case would spell it
TransferTopicUpper == <<"0", "x", "D", "D">>

\* the signature of another event (Approval), by its first byte
ApprovalTopic == <<"0", "x", "8", "c">>

\* an address whose digits are all c
Rep(c) == [i \in 1..AddrLen |-> c]

\* the same address in checksummed spelling: the first digit in upper case
Checksummed(c, upper) == [i \in 1..AddrLen |-> IF i = 1 THEN upper ELSE c]

\* the addresses of the model: the watched bot, another account, the WETH
\* contract, another token contract
WatchedLower == Prefix0x \o Rep("a")
WatchedChecksummed == Prefix0x \o Checksummed("a", "A")
WatchedUpper == Prefix0x \o Rep("A")
OtherAccount == Prefix0x \o Rep("b")
WethLower == Prefix0x \o Rep("c")
WethChecksummed == Prefix0x \o Checksummed("c", "C")
OtherToken == Prefix0x \o Rep("d")

\* an address as an indexed topic: a 32-byte word, the address left-padded
\* with zeros
PaddedTopic(address) == Prefix0x \o <<"0">> \o SubSeq(address, 3, Len(address))

\* TxAnalyzer.__init__: both addresses are normalized
TxAnalyzerInit(weth_contract_address, watched_address) ==
    [weth_contract_address |-> normalize_address(weth_contract_address),
     watched_address |-> normalize_address(watched_address)]

\* the configurations the analyzer is built with: the same two addresses,
\* spelled as the node spells them or checksummed and with a leading blank
Analyzers ==
    { TxAnalyzerInit(WethLower, WatchedLower),
      TxAnalyzerInit(WethChecksummed, <<" ">> \o WatchedChecksummed) }

\* parse_transfer_event
parse_transfer_event(topics, data) ==
    [from_address |-> Prefix0x \o lower(LastChars(topics[2], AddrLen)),
     to_address |-> Prefix0x \o lower(LastChars(topics[3], AddrLen)),
     amount |-> int16(data)]

\* variant: every Transfer log counts, whatever contract emitted it
AnyTokenTransferLog(self, log) == lower(log.topics[1]) = ERC20_TRANSFER_TOPIC

\* parse_receipt, lines 44-45: the log is a Transfer of the WETH contract
IsTransferLog(self, log) ==
    /\ lower(log.topics[1]) = ERC20_TRANSFER_TOPIC
    /\ normalize_address(log.address) = self.weth_contract_address

\* variant: a transfer is outgoing or else incoming, never both
TransferEitherWay(self, tr, d) ==
    IF tr.from_address = self.watched_address
    THEN [d EXCEPT !.outgoing_wei = Append(@, tr.amount)]
    ELSE IF tr.to_address = self.watched_address
    THEN [d EXCEPT !.incoming_wei = Append(@, tr.amount)]
    ELSE d

\* parse_receipt, lines 47-50: the two ifs on the parsed transfer tr, applied
\* to the lists d collected so far
AppendTransfer(self, tr, d) ==
    LET out == IF tr.from_address = self.watched_address
               THEN Append(d.outgoing_wei, tr.amount) ELSE d.outgoing_wei
        inc == IF tr.to_address = self.watched_address
               THEN Append(d.incoming_wei, tr.amount) ELSE d.incoming_wei
    IN  [incoming_wei |-> inc, outgoing_wei |-> out]

\* parse_receipt, the loop over receipt['logs']
RECURSIVE ParseLogs(_, _)
ParseLogs(self, logs) ==
    IF logs = <<>>
    THEN [incoming_wei |-> <<>>, outgoing_wei |-> <<>>]
    ELSE LET d == ParseLogs(self, SubSeq(logs, 1, Len(logs) - 1))
             log == logs[Len(logs)]
         IN  IF IsTransferLog(self, log)
             THEN AppendTransfer(self, parse_transfer_event(log.topics, log.data), d)
             ELSE d

\* log['topics'][0] raises IndexError on a log without topics, topics[1] and
\* topics[2] on a Transfer log with fewer than three
LogRaises(self, log) ==
    \/ Len(log.topics) = 0
    \/ IsTransferLog(self, log) /\ Len(log.topics) < 3

\* variant: every receipt is taken for a successful one
ReceiptStatusOk(rc) == 1

\* status = int(receipt['status'], 16)
ReceiptStatus(rc) == int16(rc.status)

\* variant: the fee is computed in floating point and loses its last digits
GasFeeRounded(rc) ==
    ((int16(rc.gasUsed) * int16(rc.effectiveGasPrice)) \div 1000) * 1000

\* gas_fee_wei = int(receipt['gasUsed'], 16) * int(receipt['effectiveGasPrice'], 16)
GasFeeWei(rc) == int16(rc.gasUsed) * int16(rc.effectiveGasPrice)

\* what parse_receipt returns when it raises
NoDetail ==
    [raised |-> TRUE, status |-> 0, tx_hash |-> 0, incoming_wei |-> <<>>,
     outgoing_wei |-> <<>>, gas_fee_wei |-> 0]

\* TxAnalyzer.parse_receipt
parse_receipt(self, rc, tx_hash) ==
    IF \E i \in 1..Len(rc.logs) : LogRaises(self, rc.logs[i])
    THEN NoDetail
    ELSE LET d == ParseLogs(self, rc.logs)
         IN  [raised |-> FALSE,
              status |-> ReceiptStatus(rc),
              tx_hash |-> tx_hash,
              incoming_wei |-> d.incoming_wei,
              outgoing_wei |-> d.outgoing_wei,
              gas_fee_wei |-> GasFeeWei(rc)]

\* sum() of a list of integers
RECURSIVE sum(_)
sum(s) == IF s = <<>> THEN 0 ELSE Head(s) + sum(Tail(s))

\* variant: the gas fees are left out of the net change
NetChangeWithoutGas(tx) == sum(tx.incoming_wei) - sum(tx.outgoing_wei)

\* create_block_summary, the term of one transaction in net_wei_change
NetChange(tx) == sum(tx.incoming_wei) - sum(tx.outgoing_wei) - tx.gas_fee_wei

\* TxAnalyzer.create_block_summary, the fields that are numbers or flags
create_block_summary(blk, details) ==
    LET n == Len(details)
        failed == {i \in 1..n : details[i].status = 0}
    IN  [some |-> TRUE,
         has_fails |-> \E i \in 1..n : details[i].status = 0,
         block_number |-> int16(blk.number),
         tx_count |-> n,
         fail_count |-> Cardinality(failed),
         net_wei_change |-> sum([i \in 1..n |-> NetChange(details[i])]),
         total_gas_wei |-> sum([i \in 1..n |-> details[i].gas_fee_wei])]

\* variant: only the sender is compared with the watched address
TxMatchesFromOnly(self, tx) == normalize_address(tx.from) = self.watched_address

\* analyze_block, lines 64-66: the transaction is one of the watched address
TxMatches(self, tx) ==
    LET tx_from == normalize_address(tx.from)
        tx_to == IF tx.to # NoAddress THEN normalize_address(tx.to) ELSE NoAddress
    IN  tx_from = self.watched_address
        \/ (tx_to # NoAddress /\ tx_to = self.watched_address)

\* variant: a summary is returned only when some transfer was found
SummaryIfTransfers(details) ==
    \E i \in 1..Len(details) :
        details[i].incoming_wei # <<>>
        \/ details[i].outgoing_wei # <<>>

\* analyze_block, line 71: if transactions_details
HasDetails(details) == details # <<>>

\* the index of the first transaction at or after i that matches, or
\* Len(txs) + 1: the for loop of analyze_block up to its next await
RECURSIVE NextMatch(_, _, _)
NextMatch(self, txs, i) ==
    IF i > Len(txs) THEN i
    ELSE IF TxMatches(self, txs[i]) THEN i
    ELSE NextMatch(self, txs, i + 1)

\* ----------------------------------------------------- the chain's data
\* the logs a receipt can carry
TransferIn ==
    [address |-> WethLower,
     topics |-> <<ERC20_TRANSFER_TOPIC, PaddedTopic(OtherAccount), PaddedTopic(WatchedLower)>>,
     data |-> <<"0", "x", "3">>]

TransferOut ==
    [address |-> WethChecksummed,
     topics |-> <<ERC20_TRANSFER_TOPIC, PaddedTopic(WatchedLower), PaddedTopic(OtherAccount)>>,
     data |-> <<"0", "x", "2">>]

TransferSelf ==
    [address |-> WethLower,
     topics |-> <<ERC20_TRANSFER_TOPIC, PaddedTopic(WatchedLower), PaddedTopic(WatchedLower)>>,
     data |-> <<"0", "x", "1">>]

TransferOthers ==
    [address |-> WethLower,
     topics |-> <<ERC20_TRANSFER_TOPIC, PaddedTopic(OtherAccount), PaddedTopic(OtherAccount)>>,
     data |-> <<"0", "x", "4">>]

TransferUpper ==
    [address |-> WethLower,
     topics |-> <<TransferTopicUpper, PaddedTopic(OtherAccount), PaddedTopic(WatchedUpper)>>,
     data |-> <<"0", "x", "1", "0">>]

OtherTokenTransfer ==
    [address |-> OtherToken,
     topics |-> <<ERC20_TRANSFER_TOPIC, PaddedTopic(OtherAccount), PaddedTopic(WatchedLower)>>,
     data |-> <<"0", "x", "5">>]

WethApproval ==
    [address |-> WethLower,
     topics |-> <<ApprovalTopic, PaddedTopic(WatchedLower), PaddedTopic(OtherAccount)>>,
     data |-> <<"0", "x", "6">>]

AnonymousLog ==
    [address |-> OtherToken, topics |-> <<>>, data |-> <<"0", "x", "7">>]

Logs ==
    {TransferIn, TransferOut, TransferSelf, TransferOthers, TransferUpper,
     OtherTokenTransfer, WethApproval, AnonymousLog}

\* sequences over S of length at most n
SeqUpTo(S, n) == UNION {[1..k -> S] : k \in 0..n}

\* a receipt of the node with the given status and logs
Receipt(status, gasUsed, logs) ==
    [status |-> status, gasUsed |-> gasUsed,
     effectiveGasPrice |-> <<"0", "x", "2">>, logs |-> logs]

StatusFail == <<"0", "x", "0">>
StatusOk == <<"0", "x", "1">>

\* the quantities a receipt carries as gasUsed and as effectiveGasPrice
GasUsedValues == {<<"0", "x", "0">>, <<"0", "x", "5", "2", "0", "8">>, <<"0", "x", "F", "F", "F">>}
GasPriceValues == {<<"0", "x", "1">>, <<"0", "x", "1", "0", "0", "0", "1">>, <<"0", "x", "3", "b", "9">>}

\* the receipts parse_receipt is applied to: with every choice of logs, and
\* without logs with every choice of quantities
Receipts ==
    {Receipt(s, <<"0", "x", "3">>, l) : s \in {StatusFail, StatusOk}, l \in SeqUpTo(Logs, MaxLogs)}
    \cup {[status |-> s, gasUsed |-> g, effectiveGasPrice |-> p, logs |-> <<>>] :
             s \in {StatusFail, StatusOk}, g \in GasUsedValues, p \in GasPriceValues}

\* the receipts the node answers get_transaction_receipt with
NodeReceipts ==
    { Receipt(StatusOk, <<"0", "x", "1">>, <<TransferIn>>),
      Receipt(StatusOk, <<"0", "x", "2">>, <<TransferOut, OtherTokenTransfer, TransferUpper>>),
      Receipt(StatusOk, <<"0", "x", "1">>, <<WethApproval>>),
      Receipt(StatusFail, <<"0", "x", "3">>, <<>>),
      Receipt(StatusOk, <<"0", "x", "1">>, <<AnonymousLog>>) }

NoReceipt == Receipt(<<>>, <<>>, <<>>)

\* the transactions of a block, by sender and recipient
TxKinds ==
    { [from |-> WatchedLower, to |-> OtherAccount],
      [from |-> OtherAccount, to |-> WatchedChecksummed],
      [from |-> WatchedChecksummed, to |-> WatchedLower],
      [from |-> OtherAccount, to |-> OtherToken],
      [from |-> WatchedUpper, to |-> NoAddress],
      [from |-> OtherAccount, to |-> NoAddress] }

\* a block: its transactions carry their position as hash
Block(kinds) ==
    [number |-> <<"0", "x", "1", "f">>,
     transactions |-> [i \in 1..Len(kinds) |->
                          [hash |-> i, from |-> kinds[i].from, to |-> kinds[i].to]]]

Blocks == {Block(k) : k \in SeqUpTo(TxKinds, MaxTxs)}

NoBlock == Block(<<>>)

\* the analyzer of the specifications that are not about it
DefaultAnalyzer == TxAnalyzerInit(WethLower, WatchedLower)

\* analyze_block has not been called
IdleAnalyzeBlock ==
    /\ apc = "idle"
    /\ txi = 0
    /\ fetched = <<>>
    /\ receipts = <<>>
    /\ transactions_details = <<>>
    /\ result = NoSummary

\* parse_receipt has not been called
IdleParseReceipt ==
    /\ receipt = NoReceipt
    /\ ppc = "idle"
    /\ detail = NoDetail

\* get_relevant_blocks has not been called
IdleGetRelevantBlocks ==
    /\ start_block = 1
    /\ end_block = 1
    /\ chunk_size = 1
    /\ chain_logs = {}
    /\ gpc = "idle"
    /\ from_block = 0
    /\ logs_from = {}
    /\ block_numbers = {}
    /\ queried = <<>>

\* normalize_address has not been called
IdleNormalize ==
    /\ addrs = <<>>
    /\ canon = <<>>
    /\ renorm = <<>>

\* analyze_from_block has not been called
IdleBackfill ==
    /\ start_block_number = 0
    /\ bpc = "idle"
    /\ latest_block = 0
    /\ relevant_blocks = {}
    /\ block_number = 0
    /\ summary_profit = 0
    /\ total_profit = <<>>
    /\ raised_in = ""

\* format_report has not been called
IdleFormatReport ==
    /\ flushed = <<>>
    /\ eth_price_usd = 0
    /\ fpc = "idle"
    /\ report = <<>>

\* TxAnalyzer.__init__, with none of its methods called
InitAnalyzer ==
    /\ analyzer = DefaultAnalyzer
    /\ block = NoBlock
    /\ IdleAnalyzeBlock
    /\ IdleNormalize
    /\ IdleBackfill
    /\ IdleFormatReport
    /\ IdleParseReceipt
    /\ IdleGetRelevantBlocks

\* ------------------------------------------------ tasks on the notifier
\* the tasks that call add_event (one per multiplexer sharing the notifier)
Callers == 1..MaxCallers

\* the task that calls force_flush
ForceTask == MaxCallers + 1

\* the task running run_periodic_flush
PeriodicTask == MaxCallers + 2

Tasks == 1..(MaxCallers + 2)

\* the TxEvent of the k-th add_event call, made by caller c (its timestamp
\* field, which no code reads, is left out)
TxEventOf(c, k) ==
    [bot_name |-> c, watched_address |-> c, block_number |-> k, tx_count |-> 1,
     fail_count |-> 0, net_wei_change |-> 1, gas_fee_wei |-> 1]

NoEvent ==
    [bot_name |-> 0, watched_address |-> 0, block_number |-> 0, tx_count |-> 0,
     fail_count |-> 0, net_wei_change |-> 0, gas_fee_wei |-> 0]

\* croniter(self.notify_schedule, datetime.now()).get_next(): the first
\* boundary after t
NextBoundary(t) == ((t \div Period) + 1) * Period

\* -------------------------------------------------------- WsConnectorRaw
\* variant: the id map is not cleared on a new connection
KeepSubscriptions(subs) == subs

\* self.subscriptions.clear()
ClearSubscriptions(subs) == EmptyMap

\* variant: every subscribe request carries the request id 0
RequestIdZero(i) == i - i

\* the request id of __send_subscription_requests: the enumerate() index
RequestId(i) == i

\* variant: the handler of the first registration is taken for every
\* acknowledgement
HandlerOfFirstSetup(setups, index) == setups[1].handler

\* subscription_type, event_handler, _ = self.subscription_setups[index]
HandlerOfSetup(setups, index) == setups[index + 1].handler

\* while len(self.subscription_setups) > len(self.subscriptions)
SetupPending(setups, subs) == Len(setups) > Cardinality(DOMAIN subs)

\* where run() continues once the subscribe requests are out
PcAfterSetupStep(setups, subs) == IF SetupPending(setups, subs) THEN "ack" ELSE "loop"

\* queue_requests.append(response)
BufferAppend(q, m) == Append(q, m)

\* variant: the deque is popped at its right end
PopRight(q) == [msg |-> q[Len(q)], rest |-> SubSeq(q, 1, Len(q) - 1)]

\* queue_requests.popleft()
PopLeft(q) == [msg |-> Head(q), rest |-> Tail(q)]

\* variant: the handler is started but not awaited
PcNoAwait == "loop"

\* await handler(message_params): run() waits for the handler
PcAwaitHandler == "fetch"

\* variant: a closed connection in steady state ends run()
ExceptConnectionClosedRaise == "failed"

\* except websockets.ConnectionClosed: ... continue
ExceptConnectionClosed == "connect"

\* variant: the generic exception clause re-raises
ExceptExceptionRaise == "failed"

\* variant: the message is skipped and the loop goes on
ExceptExceptionSkip == "loop"

\* except Exception: ... continue
ExceptException == "connect"

\* variant: the stop signal is handled like any other exception
ExceptStopAsyncIterationContinue == "connect"

\* except StopAsyncIteration: ... break
ExceptStopAsyncIteration == "stopped"

\* an exception raised outside the try block leaves run()
Propagate == "failed"

AckedIds(a) == {a[i] : i \in DOMAIN a} \ {0}

\* the node's ids are new on every connection: successive connections hand
\* out the ids from 1 and from 2 in turn, so that an id of one connection is
\* either not handed out on the next or stands for another registration
NextFirstId(f) == 3 - f

\* the ids the node can hand out on a connection whose first id is f
ConnectionIds(f) == f..(f + MaxSubs - 1)

\* WsConnectorRaw.__init__, before any connection
InitWs ==
    /\ subscription_setups = <<>>
    /\ subscriptions = EmptyMap
    /\ pc = "connect"
    /\ sendIdx = 0
    /\ queue_requests = <<>>
    /\ cur = NoCur
    /\ block_summary = NoSummary
    /\ inbox = <<>>
    /\ connOpen = FALSE
    /\ srvReqs = <<>>
    /\ srvAssigned = EmptyAck
    /\ srvEvents = 0
    /\ srvNextId = 2
    /\ acked = EmptyAck
    /\ handled = {}
    /\ running = {}
    /\ lastExit = "none"
    /\ srvFirstId = 2

\* TelegramNotifier.__init__, with no task using the notifier yet
InitNotifier ==
    /\ pending = <<>>
    /\ last_sent = Never
    /\ reports = <<>>
    /\ now = 1
    /\ lock = 0
    /\ waiters = <<>>
    /\ tpc = [t \in Tasks |-> "idle"]
    /\ arg = [t \in Tasks |-> NoEvent]
    /\ events = [t \in Tasks |-> <<>>]
    /\ wake = 0
    /\ ncalls = 0
    /\ eth_price = NoPrice

Init ==
    /\ InitWs
    /\ InitNotifier
    /\ InitAnalyzer
    /\ eth_client = FALSE

\* WsConnectorRaw.subscribe, called by TxWatcher.subscribe of watcher w
Subscribe(w) ==
    /\ Len(subscription_setups) < MaxSubs
    /\ w = Len(subscription_setups) + 1
    /\ subscription_setups' =
           Append(subscription_setups, [type |-> "newHeads", handler |-> w, arg |-> "None"])
    /\ UNCHANGED <<analyzerVars, wsVars, notifierVars>>

\* run(): the async-for yields a connection; the id map is cleared and the
\* first subscribe request is started (with no registration, setup is over)
Connect ==
    /\ pc = "connect"
    /\ srvFirstId' = NextFirstId(srvFirstId)
    /\ srvNextId' = srvFirstId'
    /\ subscriptions' = ClearSubscriptions(subscriptions)
    /\ sendIdx' = 0
    /\ cur' = NoCur
    /\ inbox' = <<>>
    /\ connOpen' = TRUE
    /\ srvReqs' = <<>>
    /\ srvAssigned' = EmptyAck
    /\ srvEvents' = 0
    /\ acked' = EmptyAck
    /\ handled' = {}
    /\ running' = {}
    /\ IF Len(subscription_setups) = 0
       THEN /\ queue_requests' = <<>>
            /\ pc' = PcAfterSetupStep(subscription_setups, subscriptions')
       ELSE /\ queue_requests' = queue_requests
            /\ pc' = "send"
    /\ UNCHANGED <<analyzerVars, subscription_setups, block_summary, lastExit, notifierVars>>

\* __send_subscription_requests: websocket.send of the request for sendIdx
\* returns; after the last one run() creates the deque and enters
\* __proceed_subscriptions
SendSubscriptionRequest ==
    /\ pc = "send"
    /\ connOpen
    /\ srvReqs' = Append(srvReqs, RequestId(sendIdx))
    /\ sendIdx' = sendIdx + 1
    /\ IF sendIdx + 1 < Len(subscription_setups)
       THEN /\ pc' = "send"
            /\ queue_requests' = queue_requests
       ELSE /\ pc' = PcAfterSetupStep(subscription_setups, subscriptions)
            /\ queue_requests' = <<>>
    /\ UNCHANGED <<analyzerVars, subscription_setups, subscriptions, cur, block_summary, inbox, connOpen,
                   srvAssigned, srvEvents, srvNextId, acked, handled, running, lastExit,
                   srvFirstId, notifierVars>>

\* __send_subscription_requests: websocket.send raises ConnectionClosed,
\* outside the try block of run()
SendConnectionClosed ==
    /\ pc = "send"
    /\ ~connOpen
    /\ pc' = Propagate
    /\ lastExit' = "setup_closed"
    /\ UNCHANGED <<analyzerVars, subscription_setups, subscriptions, sendIdx, queue_requests, cur,
                   block_summary, inbox, connOpen, srvReqs, srvAssigned, srvEvents, srvNextId, acked,
                   handled, running, srvFirstId, notifierVars>>

\* __proceed_subscriptions: one iteration of the while loop, recv() returned
ProceedSubscriptions ==
    /\ pc = "ack"
    /\ inbox # <<>>
    /\ LET response == Head(inbox)
       IN  /\ inbox' = Tail(inbox)
           /\ IF HasMethod(response)
              THEN /\ queue_requests' = BufferAppend(queue_requests, response)
                   /\ UNCHANGED <<subscriptions, acked>>
              ELSE /\ IF HasError(response)
                      THEN /\ acked' = MapPut(acked, response.id, 0)
                           /\ UNCHANGED subscriptions
                      ELSE /\ subscriptions' =
                                  MapPut(subscriptions, response.sub,
                                         HandlerOfSetup(subscription_setups, response.id))
                           /\ acked' = MapPut(acked, response.id, response.sub)
                   /\ UNCHANGED queue_requests
           /\ pc' = PcAfterSetupStep(subscription_setups, subscriptions')
    /\ UNCHANGED <<analyzerVars, subscription_setups, sendIdx, cur, block_summary, connOpen, srvReqs,
                   srvAssigned, srvEvents, srvNextId, handled, running, lastExit, srvFirstId,
                   notifierVars>>

\* __proceed_subscriptions: recv() raises ConnectionClosed, outside the try
\* block of run()
ProceedConnectionClosed ==
    /\ pc = "ack"
    /\ inbox = <<>>
    /\ ~connOpen
    /\ pc' = Propagate
    /\ lastExit' = "setup_closed"
    /\ UNCHANGED <<analyzerVars, subscription_setups, subscriptions, sendIdx, queue_requests, cur,
                   block_summary, inbox, connOpen, srvReqs, srvAssigned, srvEvents, srvNextId, acked,
                   handled, running, srvFirstId, notifierVars>>

\* lines 66-69 of run(): look the handler up and start it; a message without
\* params or with an unknown subscription id raises (KeyError) and run()
\* takes the generic exception path
Dispatch(response, src) ==
    IF HasParams(response) /\ response.sub \in DOMAIN subscriptions
    THEN /\ cur' = [msg |-> response, src |-> src,
                    handler |-> subscriptions[response.sub]]
         /\ handled' = handled \cup {response.n}
         /\ running' = running \cup {response.n}
         /\ pc' = PcAwaitHandler
         /\ UNCHANGED <<lastExit, connOpen>>
    ELSE /\ pc' = ExceptException
         /\ lastExit' = "error"
         /\ connOpen' = FALSE
         /\ UNCHANGED <<cur, handled, running>>

\* steady state, empty deque: recv() returned a message
LoopRecv ==
    /\ pc = "loop"
    /\ queue_requests = <<>>
    /\ inbox # <<>>
    /\ inbox' = Tail(inbox)
    /\ Dispatch(Head(inbox), "socket")
    /\ UNCHANGED <<analyzerVars, subscription_setups, subscriptions, sendIdx, queue_requests,
                   block_summary, srvReqs, srvAssigned, srvEvents, srvNextId, acked, srvFirstId,
                   notifierVars>>

\* steady state, non-empty deque: replay the oldest buffered event
LoopReplay ==
    /\ pc = "loop"
    /\ queue_requests # <<>>
    /\ queue_requests' = PopLeft(queue_requests).rest
    /\ Dispatch(PopLeft(queue_requests).msg, "buffer")
    /\ UNCHANGED <<analyzerVars, subscription_setups, subscriptions, sendIdx, block_summary, inbox,
                   srvReqs, srvAssigned, srvEvents, srvNextId, acked, srvFirstId, notifierVars>>

\* steady state: recv() raises ConnectionClosed
LoopConnectionClosed ==
    /\ pc = "loop"
    /\ queue_requests = <<>>
    /\ inbox = <<>>
    /\ ~connOpen
    /\ pc' = ExceptConnectionClosed
    /\ lastExit' = "closed"
    /\ UNCHANGED <<analyzerVars, subscription_setups, subscriptions, sendIdx, queue_requests, cur,
                   block_summary, inbox, connOpen, srvReqs, srvAssigned, srvEvents, srvNextId, acked,
                   handled, running, srvFirstId, notifierVars>>

\* steady state: recv() on the open connection raises StopAsyncIteration (a
\* closed one raises ConnectionClosed), run() breaks out of the async-for and
\* returns
LoopStopAsyncIteration ==
    /\ pc = "loop"
    /\ queue_requests = <<>>
    /\ connOpen
    /\ pc' = ExceptStopAsyncIteration
    /\ lastExit' = "stopped"
    /\ UNCHANGED <<analyzerVars, subscription_setups, subscriptions, sendIdx, queue_requests, cur,
                   block_summary, inbox, connOpen, srvReqs, srvAssigned, srvEvents, srvNextId, acked,
                   handled, running, srvFirstId, notifierVars>>

\* the handler being awaited
CurHandler == cur.handler

\* handle_event, lines 23-26: the block is fetched and analysed; the HTTP
\* call may raise, then run() takes the generic exception path
HandlerFetch ==
    /\ pc = "fetch"
    /\ \E rpc_ok \in BOOLEAN, bs \in BlockSummaries :
         IF rpc_ok
         THEN /\ block_summary' = bs
              /\ pc' = "notify"
              /\ UNCHANGED <<cur, running, lastExit, connOpen>>
         ELSE /\ bs = NoSummary
              /\ block_summary' = NoSummary
              /\ pc' = ExceptException
              /\ lastExit' = "handler_error"
              /\ connOpen' = FALSE
              /\ cur' = NoCur
              /\ running' = running \ {cur.msg.n}
    /\ UNCHANGED <<analyzerVars, subscription_setups, subscriptions, sendIdx, queue_requests, inbox,
                   srvReqs, srvAssigned, srvEvents, srvNextId, acked, handled, srvFirstId,
                   notifierVars>>

\* handle_event, lines 28-45: the handler returns, or it raises and run()
\* takes the generic exception path
HandlerFinish ==
    /\ pc = "notify"
    /\ LET r == handle_event(CurHandler, block_summary, NotifierState)
       IN  /\ pending' = r.st.pending
           /\ last_sent' = r.st.last_sent
           /\ reports' = r.st.reports
           /\ IF r.raised
              THEN /\ pc' = ExceptException
                   /\ lastExit' = "handler_error"
                   /\ connOpen' = FALSE
              ELSE /\ pc' = "loop"
                   /\ UNCHANGED <<lastExit, connOpen>>
    /\ block_summary' = NoSummary
    /\ running' = running \ {cur.msg.n}
    /\ cur' = NoCur
    /\ UNCHANGED <<analyzerVars, subscription_setups, subscriptions, sendIdx, queue_requests, inbox,
                   srvReqs, srvAssigned, srvEvents, srvNextId, acked, handled, srvFirstId,
                   taskVars>>

\* ------------------------------------------------------------- the node
\* the node answers a subscribe request with the next subscription id of its
\* allocator, which is new on this connection
ServerAckResult ==
    /\ connOpen
    /\ \E k \in 1..Len(srvReqs) :
         /\ srvReqs[k] \notin DOMAIN srvAssigned
         /\ srvNextId \notin Range(srvAssigned)
         /\ srvAssigned' = MapPut(srvAssigned, srvReqs[k], srvNextId)
         /\ inbox' = Append(inbox, ResultMsg(srvReqs[k], srvNextId))
    /\ srvNextId' = srvNextId + 1
    /\ UNCHANGED <<analyzerVars, subscription_setups, subscriptions, pc, sendIdx, queue_requests, cur,
                   block_summary, connOpen, srvReqs, srvEvents, acked, handled,
                   running, lastExit, srvFirstId, notifierVars>>

\* the node answers a subscribe request with an error
ServerAckError ==
    /\ connOpen
    /\ \E k \in 1..Len(srvReqs) :
         /\ srvReqs[k] \notin DOMAIN srvAssigned
         /\ srvAssigned' = MapPut(srvAssigned, srvReqs[k], 0)
         /\ inbox' = Append(inbox, ErrorMsg(srvReqs[k]))
    /\ UNCHANGED <<analyzerVars, subscription_setups, subscriptions, pc, sendIdx, queue_requests, cur,
                   block_summary, connOpen, srvReqs, srvEvents, srvNextId, acked, handled,
                   running, lastExit, srvFirstId, notifierVars>>

\* the ids an event notification can carry: those of the subscriptions the
\* node created on this connection, and an id this connection never hands out
EventIdsOfNode(assigned, f) == (Range(assigned) \ {0}) \cup (SubIds \ ConnectionIds(f))

\* the node sends an event notification
ServerEvent ==
    /\ connOpen
    /\ srvEvents < MaxEvents
    /\ \E sid \in EventIdsOfNode(srvAssigned, srvFirstId) :
         inbox' = Append(inbox, EventMsg(sid, srvEvents + 1))
    /\ srvEvents' = srvEvents + 1
    /\ UNCHANGED <<analyzerVars, subscription_setups, subscriptions, pc, sendIdx, queue_requests, cur,
                   block_summary, connOpen, srvReqs, srvAssigned, srvNextId, acked, handled,
                   running, lastExit, srvFirstId, notifierVars>>

\* the node repeats an acknowledgement while run() is in steady state and
\* waits in recv(): a message without "params"
ServerRepeatAck ==
    /\ connOpen
    /\ pc = "loop"
    /\ inbox = <<>>
    /\ queue_requests = <<>>
    /\ \E k \in DOMAIN srvAssigned :
         /\ srvAssigned[k] # 0
         /\ inbox' = Append(inbox, ResultMsg(k, srvAssigned[k]))
    /\ UNCHANGED <<analyzerVars, subscription_setups, subscriptions, pc, sendIdx, queue_requests, cur,
                   block_summary, connOpen, srvReqs, srvAssigned, srvEvents, srvNextId, acked,
                   handled, running, lastExit, srvFirstId, notifierVars>>

\* the transport of the current connection closes
TransportClose ==
    /\ connOpen
    /\ connOpen' = FALSE
    /\ UNCHANGED <<analyzerVars, subscription_setups, subscriptions, pc, sendIdx, queue_requests, cur,
                   block_summary, inbox, srvReqs, srvAssigned, srvEvents, srvNextId, acked, 
                   handled, running, lastExit, srvFirstId, notifierVars>>

Next ==
    \/ \E w \in Watchers : Subscribe(w)
    \/ Connect
    \/ SendSubscriptionRequest
    \/ SendConnectionClosed
    \/ ProceedSubscriptions
    \/ ProceedConnectionClosed
    \/ LoopRecv
    \/ LoopReplay
    \/ LoopConnectionClosed
    \/ LoopStopAsyncIteration
    \/ HandlerFetch
    \/ HandlerFinish
    \/ ServerAckResult
    \/ ServerAckError
    \/ ServerEvent
    \/ ServerRepeatAck
    \/ TransportClose

Spec == Init /\ [][Next]_vars

\* ---------------------------------------- the notifier and its tasks
\* the multiplexer's variables, which the notifier's tasks leave alone
wsAll == <<subscription_setups, wsVars>>

\* variant: the lock is taken whether it is held or not
LockIgnored(l) == TRUE

\* asyncio.Lock: not self._locked
LockIsFree(l) == l = 0

\* variant: run_periodic_flush returns after its flush
PeriodicReturns == "idle"

\* run_periodic_flush: while True, back to asyncio.sleep
PeriodicLoops == "sleep"

\* where task t continues when its add_event or force_flush call returns
AfterReturn(t) == IF t = PeriodicTask THEN PeriodicLoops ELSE "idle"

\* variant: the sleep of run_periodic_flush skips a boundary
SecondsUntilNextSkip(t) == NextBoundary(NextBoundary(t)) - t

\* _seconds_until_next at time t
SecondsUntilNext(t) == IF NextBoundary(t) - t > 0 THEN NextBoundary(t) - t ELSE 0

\* the block of "async with self._lock" is left and the call returns to task
\* t; the periodic task computes its next delay and sleeps again
ReleaseAndReturn(t) ==
    /\ lock' = 0
    /\ tpc' = [tpc EXCEPT ![t] = AfterReturn(t)]
    /\ wake' = IF t = PeriodicTask THEN now + SecondsUntilNext(now) ELSE wake
    /\ arg' = [arg EXCEPT ![t] = NoEvent]
    /\ events' = [events EXCEPT ![t] = <<>>]
    /\ eth_price' = NoPrice

\* _flush called by task t, which holds the lock, on the queue p: up to its
\* first await (the price lookup if there is an eth_client, else the post of
\* _send)
FlushBegin(t, p) ==
    IF FlushReturnsEarly(p)
    THEN /\ pending' = p
         /\ UNCHANGED <<last_sent, reports>>
         /\ ReleaseAndReturn(t)
    ELSE LET s == FlushSwap(p, now)
         IN  /\ pending' = s.pending
             /\ last_sent' = s.last_sent
             /\ events' = [events EXCEPT ![t] = s.events]
             /\ arg' = [arg EXCEPT ![t] = NoEvent]
             /\ lock' = t
             /\ wake' = wake
             /\ eth_price' = NoPrice
             /\ IF eth_client
                THEN /\ tpc' = [tpc EXCEPT ![t] = "price"]
                     /\ reports' = reports
                ELSE /\ tpc' = [tpc EXCEPT ![t] = "send"]
                     /\ reports' = Append(reports, s.events)

\* caller c has called add_event: an event with its name is the argument of
\* a call in progress, is pending, is held by a flush or is in a report
HasCalled(c) ==
    \/ arg[c] # NoEvent
    \/ \E i \in 1..Len(pending) : pending[i].bot_name = c
    \/ \E t \in Tasks : \E i \in 1..Len(events[t]) : events[t][i].bot_name = c
    \/ \E k \in 1..Len(reports) : \E i \in 1..Len(reports[k]) : reports[k][i].bot_name = c

\* the callers are tasks of the same kind: they are numbered in the order in
\* which they first call add_event
NumberedInCallOrder(c) == HasCalled(c) \/ \A d \in 1..(c - 1) : HasCalled(d)

\* a task calls add_event with a new TxEvent and asks for the lock
AddEventCall(c) ==
    /\ c \in Callers
    /\ NumberedInCallOrder(c)
    /\ tpc[c] = "idle"
    /\ ncalls < MaxAdds
    /\ ncalls' = ncalls + 1
    /\ arg' = [arg EXCEPT ![c] = TxEventOf(c, ncalls + 1)]
    /\ tpc' = [tpc EXCEPT ![c] = "lock"]
    /\ waiters' = Append(waiters, c)
    /\ UNCHANGED <<wsAll, analyzerVars, pending, last_sent, reports, now, lock, events, wake, eth_client, eth_price>>

\* a task calls force_flush and asks for the lock
ForceFlushCall ==
    /\ tpc[ForceTask] = "idle"
    /\ tpc' = [tpc EXCEPT ![ForceTask] = "lock"]
    /\ waiters' = Append(waiters, ForceTask)
    /\ UNCHANGED <<wsAll, analyzerVars, pending, last_sent, reports, now, lock, arg, events, wake, ncalls,
                   eth_client, eth_price>>

\* run_periodic_flush is started (again, after it was cancelled): it computes
\* its first delay and sleeps
RunPeriodicFlush ==
    /\ tpc[PeriodicTask] \in {"idle", "cancelled"}
    /\ tpc' = [tpc EXCEPT ![PeriodicTask] = "sleep"]
    /\ wake' = now + SecondsUntilNext(now)
    /\ UNCHANGED <<wsAll, analyzerVars, pending, last_sent, reports, now, lock, waiters, arg, events, ncalls,
                   eth_client, eth_price>>

\* run_periodic_flush: asyncio.sleep(delay) is over, force_flush is called
PeriodicWake ==
    /\ tpc[PeriodicTask] = "sleep"
    /\ now >= wake
    /\ tpc' = [tpc EXCEPT ![PeriodicTask] = "lock"]
    /\ waiters' = Append(waiters, PeriodicTask)
    /\ UNCHANGED <<wsAll, analyzerVars, pending, last_sent, reports, now, lock, arg, events, wake, ncalls,
                   eth_client, eth_price>>

\* async with self._lock: the longest waiting task gets the free lock and
\* runs add_event (lines 46-48) or force_flush (line 53) up to the first await
LockAcquire(t) ==
    /\ tpc[t] = "lock"
    /\ waiters # <<>>
    /\ Head(waiters) = t
    /\ LockIsFree(lock)
    /\ waiters' = Tail(waiters)
    /\ IF t \in Callers
       THEN LET p == Append(pending, arg[t])
            IN  IF FlushOnAdd(last_sent)
                THEN FlushBegin(t, p)
                ELSE /\ pending' = p
                     /\ UNCHANGED <<last_sent, reports>>
                     /\ ReleaseAndReturn(t)
       ELSE FlushBegin(t, pending)
    /\ UNCHANGED <<wsAll, analyzerVars, now, ncalls, eth_client>>

\* variant: an exception of the price lookup leaves _flush
ExceptPriceRaise == "failed"

\* _flush, lines 65-66: except Exception, the failure is logged and _flush
\* goes on to format_report and _send
ExceptPrice == "send"

\* _flush, lines 62-68: get_eth_price_usd returned a price, or it raised an
\* Exception and eth_price is still None; the report is formatted and _send
\* posts it
PriceReturn(t) ==
    /\ tpc[t] = "price"
    /\ \E raised \in BOOLEAN :
         IF raised
         THEN /\ eth_price' = NoPrice
              /\ tpc' = [tpc EXCEPT ![t] = ExceptPrice]
              /\ reports' = IF ExceptPrice = "send"
                             THEN Append(reports, events[t])
                             ELSE reports
         ELSE /\ eth_price' = EthPrice
              /\ tpc' = [tpc EXCEPT ![t] = "send"]
              /\ reports' = Append(reports, events[t])
    /\ UNCHANGED <<wsAll, analyzerVars, pending, last_sent, now, lock, waiters, arg, events, wake, ncalls,
                   eth_client>>

\* variant: the events of a failed delivery are put back into the queue
RequeueAfterSendFailure(p, evs) == evs \o p

\* _send, lines 80-82 and 85-86: a failed delivery is logged; the queue p is
\* left as it is, the events evs of the report are dropped
AfterSendFailure(p, evs) == p

\* _send, lines 78-86: the post returned with status 200, or it raised (the
\* exception is logged), and _send, _flush and the call of task t return; or
\* it returned with another status and _send reads the body of the response
SendReturn(t) ==
    /\ tpc[t] = "send"
    /\ \E outcome \in {"200", "error_status", "raised"} :
         IF outcome = "error_status"
         THEN /\ tpc' = [tpc EXCEPT ![t] = "body"]
              /\ UNCHANGED <<pending, lock, arg, events, wake, eth_price>>
         ELSE /\ pending' = IF outcome = "200"
                             THEN pending
                             ELSE AfterSendFailure(pending, events[t])
              /\ ReleaseAndReturn(t)
    /\ UNCHANGED <<wsAll, analyzerVars, last_sent, reports, now, waiters, ncalls, eth_client>>

\* _send, lines 81-86: resp.text() returned, or it raised, and the failure is
\* logged; _send, _flush and the call of task t return
BodyReturn(t) ==
    /\ tpc[t] = "body"
    /\ pending' = AfterSendFailure(pending, events[t])
    /\ ReleaseAndReturn(t)
    /\ UNCHANGED <<wsAll, analyzerVars, last_sent, reports, now, waiters, ncalls, eth_client>>

\* time passes
Tick ==
    /\ now < MaxTime
    /\ now' = now + 1
    /\ UNCHANGED <<wsAll, analyzerVars, pending, last_sent, reports, lock, waiters, tpc, arg, events, wake,
                   ncalls, eth_client, eth_price>>

\* the task running run_periodic_flush is cancelled: CancelledError is raised
\* at its await point (it is no Exception, so _flush does not catch it), the
\* lock is released if the task held it, and the task ends
CancelPeriodic ==
    /\ tpc[PeriodicTask] \in {"sleep", "lock", "price", "send", "body"}
    /\ tpc' = [tpc EXCEPT ![PeriodicTask] = "cancelled"]
    /\ waiters' = SelectSeq(waiters, LAMBDA t : t # PeriodicTask)
    /\ lock' = IF lock = PeriodicTask THEN 0 ELSE lock
    /\ events' = [events EXCEPT ![PeriodicTask] = <<>>]
    /\ eth_price' = IF lock = PeriodicTask THEN NoPrice ELSE eth_price
    /\ UNCHANGED <<wsAll, analyzerVars, pending, last_sent, reports, now, arg, wake, ncalls, eth_client>>

\* the notifier is built with or without an eth_client
NotifierInit ==
    /\ InitWs
    /\ InitNotifier
    /\ InitAnalyzer
    /\ eth_client \in BOOLEAN

NotifierNext ==
    \/ \E c \in Callers : AddEventCall(c)
    \/ ForceFlushCall
    \/ RunPeriodicFlush
    \/ PeriodicWake
    \/ \E t \in Tasks : LockAcquire(t)
    \/ \E t \in Tasks : PriceReturn(t)
    \/ \E t \in Tasks : SendReturn(t)
    \/ \E t \in Tasks : BodyReturn(t)
    \/ Tick

NotifierSpec == NotifierInit /\ [][NotifierNext]_vars

NotifierCancelSpec == NotifierInit /\ [][NotifierNext \/ CancelPeriodic]_vars

\* main.py, monitor: asyncio.run(run_monitoring()) ends (the gathered tasks
\* returned, or the run was interrupted) and the process exits; asyncio.run
\* cancels the tasks still running.  Nothing stops the multiplexers before
\* and nothing calls force_flush
MonitorExit ==
    /\ \E t \in Tasks : tpc[t] # "exited"
    /\ tpc' = [t \in Tasks |-> "exited"]
    /\ waiters' = <<>>
    /\ lock' = 0
    /\ arg' = [t \in Tasks |-> NoEvent]
    /\ events' = [t \in Tasks |-> <<>>]
    /\ eth_price' = NoPrice
    /\ UNCHANGED <<wsAll, analyzerVars, pending, last_sent, reports, now, wake, ncalls, eth_client>>

MonitorSpec == NotifierInit /\ [][NotifierNext \/ MonitorExit]_vars

\* ------------------------------------------- TxAnalyzer.analyze_block
allOther == <<wsAll, notifierVars, codecVars, backfillVars, formatVars>>

\* analyze_block from transaction i on with the details collected so far, up
\* to its next await (get_transaction_receipt) or its return
AnalyzeFrom(i, details) ==
    LET j == NextMatch(analyzer, block.transactions, i)
    IN  /\ txi' = j
        /\ transactions_details' = details
        /\ IF j <= Len(block.transactions)
           THEN /\ apc' = "receipt"
                /\ fetched' = Append(fetched, block.transactions[j].hash)
                /\ result' = result
           ELSE /\ apc' = "done"
                /\ fetched' = fetched
                /\ result' = IF HasDetails(details)
                             THEN create_block_summary(block, details)
                             ELSE NoSummary

\* analyze_block is called with the block
AnalyzeBlockCall ==
    /\ apc = "idle"
    /\ AnalyzeFrom(1, <<>>)
    /\ UNCHANGED <<allOther, analyzer, block, receipts, receiptVars, scanVars>>

\* get_transaction_receipt returns a receipt, which is parsed and appended,
\* or the HTTP call or parse_receipt raises and the exception leaves
\* analyze_block
ReceiptReturn ==
    /\ apc = "receipt"
    /\ \E rpc_ok \in BOOLEAN, r \in NodeReceipts :
         LET d == parse_receipt(analyzer, r, block.transactions[txi].hash)
         IN  IF rpc_ok /\ ~d.raised
             THEN /\ receipts' = Append(receipts, r)
                  /\ AnalyzeFrom(txi + 1, Append(transactions_details, d))
             ELSE /\ apc' = "failed"
                  /\ receipts' = IF rpc_ok THEN Append(receipts, r) ELSE receipts
                  /\ UNCHANGED <<txi, fetched, transactions_details, result>>
    /\ UNCHANGED <<allOther, analyzer, block, receiptVars, scanVars>>

AnalyzeBlockInit ==
    /\ InitWs
    /\ InitNotifier
    /\ eth_client = FALSE
    /\ analyzer \in Analyzers
    /\ block \in Blocks
    /\ IdleAnalyzeBlock
    /\ IdleNormalize
    /\ IdleBackfill
    /\ IdleFormatReport
    /\ IdleParseReceipt
    /\ IdleGetRelevantBlocks

AnalyzeBlockNext ==
    \/ AnalyzeBlockCall
    \/ ReceiptReturn

AnalyzeBlockSpec == AnalyzeBlockInit /\ [][AnalyzeBlockNext]_vars

\* ------------------------------------------- TxAnalyzer.parse_receipt
\* parse_receipt is called with the receipt
ParseReceiptCall ==
    /\ ppc = "idle"
    /\ detail' = parse_receipt(analyzer, receipt, 1)
    /\ ppc' = IF detail'.raised THEN "raised" ELSE "returned"
    /\ UNCHANGED <<allOther, analyzer, receipt, blockVars, scanVars>>

\* the next receipt is handed to parse_receipt
NextReceipt ==
    /\ ppc # "idle"
    /\ \E r \in Receipts : receipt' = r
    /\ ppc' = "idle"
    /\ detail' = NoDetail
    /\ UNCHANGED <<allOther, analyzer, blockVars, scanVars>>

ParseReceiptInit ==
    /\ InitWs
    /\ InitNotifier
    /\ eth_client = FALSE
    /\ analyzer \in Analyzers
    /\ receipt \in Receipts
    /\ ppc = "idle"
    /\ detail = NoDetail
    /\ block = NoBlock
    /\ IdleAnalyzeBlock
    /\ IdleNormalize
    /\ IdleBackfill
    /\ IdleFormatReport
    /\ IdleGetRelevantBlocks

ParseReceiptNext ==
    \/ ParseReceiptCall
    \/ NextReceipt

ParseReceiptSpec == ParseReceiptInit /\ [][ParseReceiptNext]_vars

\* --------------------------------------- TxAnalyzer.get_relevant_blocks
\* the block numbers of the chain
ChainBlocks == 0..(MaxBlock + 1)

\* the Transfer logs of the WETH contract that have the watched address as
\* sender ("from") or as recipient ("to"), by block
ChainLogs == [block : ChainBlocks, side : {"from", "to"}]

\* eth_getLogs on the node: the logs of the filter, each with its block
\* number in hexadecimal
NodeGetLogs(params) ==
    { [blockNumber |-> hex(l.block)] :
        l \in { c \in chain_logs : /\ c.side = params.side
                                   /\ int16(params.fromBlock) <= c.block
                                   /\ c.block <= int16(params.toBlock) } }

\* EthClient.get_logs: the parameters of the call; the watched address is
\* the second topic ("from") or the third ("to")
get_logs(f, to_block, side) ==
    [fromBlock |-> hex(f), toBlock |-> hex(to_block), side |-> side]

Min(a, b) == IF a <= b THEN a ELSE b

\* variant: the chunk ends where the next one begins
ToBlockOverlapping(f, e, c) ==
    Min(f + c, e)

\* to_block = min(from_block + chunk_size - 1, end_block)
ToBlock(f, e, c) ==
    Min(f + c - 1, e)

\* the chunk being queried
to_block == ToBlock(from_block, end_block, chunk_size)

\* the for loop takes the chunk that begins at f, if the range has one, and
\* awaits the first get_logs; else get_relevant_blocks returns
NextChunk(f) ==
    IF f <= end_block
    THEN /\ from_block' = f
         /\ gpc' = "logs_from"
         /\ queried' = Append(queried,
                              get_logs(f, ToBlock(f, end_block, chunk_size), "from"))
    ELSE /\ gpc' = "done"
         /\ UNCHANGED <<from_block, queried>>

\* get_relevant_blocks is called
GetRelevantBlocksCall ==
    /\ gpc = "idle"
    /\ block_numbers' = {}
    /\ NextChunk(start_block)
    /\ UNCHANGED <<allOther, analyzer, blockVars, receiptVars, start_block, end_block,
                   chunk_size, chain_logs, logs_from>>

\* the first get_logs of the chunk returns, or raises
LogsFromReturn ==
    /\ gpc = "logs_from"
    /\ \E rpc_ok \in BOOLEAN :
         IF rpc_ok
         THEN /\ logs_from' = NodeGetLogs(queried[Len(queried)])
              /\ gpc' = "logs_to"
              /\ queried' = Append(queried, get_logs(from_block, to_block, "to"))
         ELSE /\ gpc' = "failed"
              /\ UNCHANGED <<logs_from, queried>>
    /\ UNCHANGED <<allOther, analyzer, blockVars, receiptVars, start_block, end_block,
                   chunk_size, chain_logs, from_block, block_numbers>>

\* the second get_logs of the chunk returns and the block numbers of both
\* answers are added to the set, or it raises
LogsToReturn ==
    /\ gpc = "logs_to"
    /\ \E rpc_ok \in BOOLEAN :
         IF rpc_ok
         THEN LET logs_to == NodeGetLogs(queried[Len(queried)])
              IN  /\ block_numbers' =
                         block_numbers \cup {int16(log.blockNumber) : log \in logs_from \cup logs_to}
                  /\ logs_from' = {}
                  /\ NextChunk(from_block + chunk_size)
         ELSE /\ gpc' = "failed"
              /\ UNCHANGED <<logs_from, queried, from_block, block_numbers>>
    /\ UNCHANGED <<allOther, analyzer, blockVars, receiptVars, start_block, end_block,
                   chunk_size, chain_logs>>

GetRelevantBlocksInit ==
    /\ InitWs
    /\ InitNotifier
    /\ eth_client = FALSE
    /\ analyzer = DefaultAnalyzer
    /\ block = NoBlock
    /\ IdleAnalyzeBlock
    /\ IdleNormalize
    /\ IdleBackfill
    /\ IdleFormatReport
    /\ IdleParseReceipt
    /\ start_block \in 1..MaxBlock
    /\ end_block \in 1..MaxBlock
    /\ chunk_size \in 1..MaxChunk
    /\ chain_logs \in {s \in SUBSET ChainLogs : Cardinality(s) <= MaxChainLogs}
    /\ gpc = "idle"
    /\ from_block = 0
    /\ logs_from = {}
    /\ block_numbers = {}
    /\ queried = <<>>

GetRelevantBlocksNext ==
    \/ GetRelevantBlocksCall
    \/ LogsFromReturn
    \/ LogsToReturn

GetRelevantBlocksSpec == GetRelevantBlocksInit /\ [][GetRelevantBlocksNext]_vars

\* ---------------------------------------- TxAnalyzer.analyze_from_block
\* what analyze_from_block leaves alone
notBackfill == <<wsAll, notifierVars, analyzer, blockVars, receiptVars, scanVars, codecVars,
                 formatVars>>

\* the net_wei_change of the summaries analyze_block returns for the blocks
\* of the scan
NetWeiChanges == {-1, 2}

\* the element of sorted(relevant_blocks) that follows block n; 0 when the
\* for loop is over
NextRelevant(blocks, n) ==
    IF \E b \in blocks : b > n
    THEN CHOOSE b \in blocks : b > n /\ \A c \in blocks : c > n => b <= c
    ELSE 0

\* the for loop goes on after block n with the profit so far: it awaits
\* get_block_with_transactions for the next block or, past the last one, the
\* function awaits get_eth_price_usd
BackfillLoop(blocks, n, profit) ==
    /\ block_number' = NextRelevant(blocks, n)
    /\ summary_profit' = profit
    /\ bpc' = IF NextRelevant(blocks, n) # 0 THEN "block" ELSE "price"

\* an awaited call raises: analyze_from_block has no try statement, the
\* exception leaves it
BackfillRaises(call) ==
    /\ bpc' = "raised"
    /\ raised_in' = call

\* logging.info(f"Total profit: ... WETH (${profit_usd:.2f} @ ETH=${eth_price:.0f})")
TotalProfitLine(profit, price) ==
    [weth |-> profit, usd |-> profit * price, eth_price |-> price]

\* what is logged when get_eth_price_usd raised: nothing, the logging
\* statement after it is not reached
PriceFailure(profit) == <<>>

\* analyze_from_block is called and awaits get_latest_block
AnalyzeFromBlockCall ==
    /\ bpc = "idle"
    /\ bpc' = "latest"
    /\ UNCHANGED <<notBackfill, start_block_number, latest_block, relevant_blocks,
                   block_number, summary_profit, total_profit, raised_in>>

\* get_latest_block returns and get_relevant_blocks is awaited, or it raises
LatestBlockReturn ==
    /\ bpc = "latest"
    /\ \E rpc_ok \in BOOLEAN, n \in 1..MaxBlock :
         IF rpc_ok
         THEN /\ latest_block' = n
              /\ bpc' = "scan"
              /\ UNCHANGED raised_in
         ELSE /\ BackfillRaises("get_latest_block")
              /\ UNCHANGED latest_block
    /\ UNCHANGED <<notBackfill, start_block_number, relevant_blocks, block_number,
                   summary_profit, total_profit>>

\* get_relevant_blocks returns block numbers of the range and the for loop
\* over sorted(relevant_blocks) begins, or it raises
RelevantBlocksReturn ==
    /\ bpc = "scan"
    /\ \E rpc_ok \in BOOLEAN, blocks \in SUBSET (start_block_number..latest_block) :
         IF rpc_ok
         THEN /\ relevant_blocks' = blocks
              /\ BackfillLoop(blocks, 0, 0)
              /\ UNCHANGED raised_in
         ELSE /\ BackfillRaises("get_relevant_blocks")
              /\ UNCHANGED <<relevant_blocks, block_number, summary_profit>>
    /\ UNCHANGED <<notBackfill, start_block_number, latest_block, total_profit>>

\* get_block_with_transactions returns and analyze_block is awaited, or it
\* raises
BlockReturn ==
    /\ bpc = "block"
    /\ \E rpc_ok \in BOOLEAN :
         IF rpc_ok
         THEN /\ bpc' = "analyze"
              /\ UNCHANGED raised_in
         ELSE BackfillRaises("get_block_with_transactions")
    /\ UNCHANGED <<notBackfill, start_block_number, latest_block, relevant_blocks,
                   block_number, summary_profit, total_profit>>

\* analyze_block returns None or a summary, whose net_wei_change is added to
\* summary_profit, and the loop goes on; or it raises
BlockSummaryReturn ==
    /\ bpc = "analyze"
    /\ \E rpc_ok \in BOOLEAN, net \in NetWeiChanges \cup {0} :
         IF rpc_ok
         THEN /\ BackfillLoop(relevant_blocks, block_number, summary_profit + net)
              /\ UNCHANGED raised_in
         ELSE /\ BackfillRaises("analyze_block")
              /\ UNCHANGED <<block_number, summary_profit>>
    /\ UNCHANGED <<notBackfill, start_block_number, latest_block, relevant_blocks,
                   total_profit>>

\* get_eth_price_usd returns and the total is logged, or it raises
TotalPriceReturn ==
    /\ bpc = "price"
    /\ \E rpc_ok \in BOOLEAN :
         IF rpc_ok
         THEN /\ total_profit' = <<TotalProfitLine(summary_profit, EthPrice)>>
              /\ bpc' = "done"
              /\ UNCHANGED raised_in
         ELSE /\ total_profit' = PriceFailure(summary_profit)
              /\ BackfillRaises("get_eth_price_usd")
    /\ UNCHANGED <<notBackfill, start_block_number, latest_block, relevant_blocks,
                   block_number, summary_profit>>

BackfillInit ==
    /\ InitWs
    /\ InitNotifier
    /\ eth_client = FALSE
    /\ analyzer = DefaultAnalyzer
    /\ block = NoBlock
    /\ IdleAnalyzeBlock
    /\ IdleParseReceipt
    /\ IdleGetRelevantBlocks
    /\ IdleNormalize
    /\ IdleFormatReport
    /\ start_block_number \in 1..MaxBlock
    /\ bpc = "idle"
    /\ latest_block = 0
    /\ relevant_blocks = {}
    /\ block_number = 0
    /\ summary_profit = 0
    /\ total_profit = <<>>
    /\ raised_in = ""

BackfillNext ==
    \/ AnalyzeFromBlockCall
    \/ LatestBlockReturn
    \/ RelevantBlocksReturn
    \/ BlockReturn
    \/ BlockSummaryReturn
    \/ TotalPriceReturn

BackfillSpec == BackfillInit /\ [][BackfillNext]_vars


\* ------------------------------------------------- normalize_address
\* the digits an address is written with, in either case
AddrDigits == {"0", "a", "A"}

\* the ways an address is prefixed: not at all, with 0x, with 0X, with 0x
\* after a blank
AddrPrefixes == {<<>>, <<"0", "x">>, <<"0", "X">>, <<" ", "0", "x">>}

\* the address strings normalize_address is applied to: at most AddrLen
\* digits
AddrStrings == {p \o d : p \in AddrPrefixes, d \in SeqUpTo(AddrDigits, AddrLen)}

\* normalize_address is called with each of the two strings
NormalizeCall ==
    /\ canon = <<>>
    /\ canon' = [i \in 1..Len(addrs) |-> normalize_address(addrs[i])]
    /\ UNCHANGED <<wsAll, notifierVars, analyzer, blockVars, receiptVars, scanVars,
                   backfillVars, formatVars, addrs, renorm>>

\* normalize_address is called with each of its results
NormalizeAgain ==
    /\ canon # <<>>
    /\ renorm = <<>>
    /\ renorm' = [i \in 1..Len(canon) |-> normalize_address(canon[i])]
    /\ UNCHANGED <<wsAll, notifierVars, analyzer, blockVars, receiptVars, scanVars,
                   backfillVars, formatVars, addrs, canon>>

NormalizeInit ==
    /\ InitWs
    /\ InitNotifier
    /\ eth_client = FALSE
    /\ analyzer = DefaultAnalyzer
    /\ block = NoBlock
    /\ IdleAnalyzeBlock
    /\ IdleParseReceipt
    /\ IdleGetRelevantBlocks
    /\ IdleBackfill
    /\ IdleFormatReport
    /\ addrs \in AddrStrings \X AddrStrings
    /\ canon = <<>>
    /\ renorm = <<>>

NormalizeNext ==
    \/ NormalizeCall
    \/ NormalizeAgain

NormalizeSpec == NormalizeInit /\ [][NormalizeNext]_vars

\* ------------------------------------------------------- format_report
\* what format_report leaves alone
notFormat == <<wsAll, notifierVars, analyzer, blockVars, receiptVars, scanVars, codecVars,
               backfillVars>>

\* the bots of the configuration and their watched addresses
BotNames == {"ethereum", "arbitrum"}

\* str.upper()
upper(name) ==
    CASE name = "ethereum" -> "ETHEREUM" [] name = "arbitrum" -> "ARBITRUM" [] OTHER -> name

BotAddress(name) ==
    IF name = "ethereum"
    THEN <<"0", "x", "1", "2", "3", "4", "5", "6", "7", "8", "5", "6", "7", "8">>
    ELSE <<"0", "x", "a", "b", "c", "d", "e", "f", "1", "2", "e", "f", "1", "2">>

\* amounts of wei are counted in units of 2 * 10^11 wei: five units are the
\* 10^-6 ETH of the last digit that "{net_eth:+.6f}" prints
UnitsPerMicroEth == 5

\* the amounts the events carry as net_wei_change, and their (tx_count,
\* fail_count)
NetValues == {-3, 0, 7}
TxFailCounts == {<<1, 0>>, <<2, 1>>}

\* the events a flush hands to format_report
ReportEvents ==
    {[bot_name |-> b, watched_address |-> BotAddress(b), tx_count |-> c[1],
      fail_count |-> c[2], net_wei_change |-> n] :
        b \in BotNames, c \in TxFailCounts, n \in NetValues}

\* s[:n]
FirstChars(s, n) == SubSeq(s, 1, Min(n, Len(s)))

\* f"{addr[:6]}...{addr[-4:]}"
short_addr(addr) == FirstChars(addr, 6) \o <<".", ".", ".">> \o LastChars(addr, 4)

\* "{x:+.Nf}" of a quotient n / d: its sign, and its digits rounded to the
\* nearest last digit (the amounts of the model make no ties)
SignedRounded(n, d) ==
    [sign   |-> IF n < 0 THEN "-" ELSE "+",
     digits |-> (2 * (IF n < 0 THEN -n ELSE n) + d) \div (2 * d)]

\* the emoji of the group: profit, loss or neither
Emoji(total_net) ==
    IF total_net > 0 THEN "profit" ELSE IF total_net < 0 THEN "loss" ELSE "neutral"

\* variant: a group is made of consecutive events of one bot only
RECURSIVE ByBotConsecutive(_)
ByBotConsecutive(evs) ==
    IF evs = <<>> THEN <<>>
    ELSE LET rest == ByBotConsecutive(SubSeq(evs, 1, Len(evs) - 1))
             e    == evs[Len(evs)]
         IN  IF rest # <<>> /\ rest[Len(rest)].bot_name = e.bot_name
             THEN [rest EXCEPT ![Len(rest)].bot_events = Append(@, e)]
             ELSE Append(rest, [bot_name |-> e.bot_name, bot_events |-> <<e>>])

\* for e in events: by_bot.setdefault(e.bot_name, []).append(e)
\* the dict in insertion order, as the list of its items
RECURSIVE by_bot(_)
by_bot(evs) ==
    IF evs = <<>> THEN <<>>
    ELSE LET rest == by_bot(SubSeq(evs, 1, Len(evs) - 1))
             e    == evs[Len(evs)]
         IN  IF \E k \in 1..Len(rest) : rest[k].bot_name = e.bot_name
             THEN [k \in 1..Len(rest) |->
                      IF rest[k].bot_name = e.bot_name
                      THEN [rest[k] EXCEPT !.bot_events = Append(@, e)]
                      ELSE rest[k]]
             ELSE Append(rest, [bot_name |-> e.bot_name, bot_events |-> <<e>>])

\* the five lines of one group: header, short address, successful/total
\* transactions, total with the USD value if a price is given, empty line
GroupLines(g, price) ==
    LET bot_events  == g.bot_events
        total_net   == sum([k \in 1..Len(bot_events) |-> bot_events[k].net_wei_change])
        total_txs   == sum([k \in 1..Len(bot_events) |-> bot_events[k].tx_count])
        total_fails == sum([k \in 1..Len(bot_events) |-> bot_events[k].fail_count])
    IN  << [kind |-> "header", emoji |-> Emoji(total_net), name |-> upper(g.bot_name)],
           [kind |-> "address", text |-> short_addr(bot_events[1].watched_address)],
           [kind |-> "successful", successful |-> total_txs - total_fails,
            total_txs |-> total_txs],
           [kind |-> "total", eth |-> SignedRounded(total_net, UnitsPerMicroEth),
            usd_shown |-> UsdShown(price),
            usd |-> SignedRounded(total_net * price, 50000)],
           [kind |-> "blank"] >>

RECURSIVE GroupsLines(_, _)
GroupsLines(groups, price) ==
    IF groups = <<>> THEN <<>>
    ELSE GroupLines(Head(groups), price) \o GroupsLines(Tail(groups), price)

\* format_report(events, eth_price_usd): the lines of the text it returns
format_report(evs, price) == GroupsLines(by_bot(evs), price)

\* format_report is called with the events of a flush
FormatReportCall ==
    /\ fpc = "idle"
    /\ report' = format_report(flushed, eth_price_usd)
    /\ fpc' = "returned"
    /\ UNCHANGED <<notFormat, flushed, eth_price_usd>>

FormatReportInit ==
    /\ InitWs
    /\ InitNotifier
    /\ eth_client = FALSE
    /\ analyzer = DefaultAnalyzer
    /\ block = NoBlock
    /\ IdleAnalyzeBlock
    /\ IdleParseReceipt
    /\ IdleGetRelevantBlocks
    /\ IdleNormalize
    /\ IdleBackfill
    /\ flushed \in SeqUpTo(ReportEvents, MaxAdds)
    /\ eth_price_usd \in {NoPrice, EthPrice}
    /\ fpc = "idle"
    /\ report = <<>>

FormatReportNext == FormatReportCall

FormatReportSpec == FormatReportInit /\ [][FormatReportNext]_vars

\* the event loop runs every task that is ready: a task whose sleep is over,
\* the first waiter of a free lock, a task whose price lookup or send has
\* returned (both HTTP calls end, by their timeouts at the latest); and time
\* passes.  Only the first waiter can take the lock and only its holder is in
\* _flush, so at most one task is ready at each of these steps
NotifierFairness ==
    /\ WF_vars(Tick)
    /\ WF_vars(PeriodicWake)
    /\ WF_vars(\E t \in Tasks : LockAcquire(t))
    /\ WF_vars(\E t \in Tasks : PriceReturn(t))
    /\ WF_vars(\E t \in Tasks : SendReturn(t))
    /\ WF_vars(\E t \in Tasks : BodyReturn(t))

NotifierLiveSpec == NotifierSpec /\ NotifierFairness


\* ------------------------------------------------------------ properties
RECURSIVE Flatten(_)
Flatten(ss) == IF ss = <<>> THEN <<>> ELSE Head(ss) \o Flatten(Tail(ss))

\* every event the notifier has been given, in the order of add_event:
\* those already handed to _send, then those still pending
NotifierEvents == Flatten(reports) \o pending

InHandler == pc \in {"fetch", "notify"}

Reconnected ==
    /\ lastExit \in {"closed", "error", "handler_error"}
    /\ pc \notin {"connect", "failed", "stopped"}

\* the TxEvent the summary bs of watcher w stands for
ExpectedTxEvent(w, bs) ==
    [bot_name |-> BotName(w),
     watched_address |-> WatchedAddress(w),
     block_number |-> bs.block_number,
     tx_count |-> bs.tx_count,
     fail_count |-> bs.fail_count,
     net_wei_change |-> bs.net_wei_change,
     gas_fee_wei |-> bs.total_gas_wei]

\* C1: when handle_event of a watcher with a notifier has the result of
\* analyze_block, it returns normally, and it has given the notifier exactly
\* one TxEvent with the fields of the summary if the summary is non-empty and
\* no TxEvent if it is None.
C1_HandleEventQueuesOneEvent ==
    [][(pc = "notify" /\ pc' # pc /\ HasNotifier(CurHandler)) =>
          /\ pc' = "loop"
          /\ NotifierEvents' =
                IF block_summary.some
                THEN Append(NotifierEvents, ExpectedTxEvent(CurHandler, block_summary))
                ELSE NotifierEvents]_vars

\* C2: on every connection run() obtains, the id map is emptied before the
\* first request, the requests sent so far are the registration indices
\* 0, 1, 2, ... in order, one each, and when the sending step is over there
\* is exactly one request per registration.
C2_ResubscribeOnEveryConnection ==
    [][/\ (pc = "connect" /\ pc' # pc) => (subscriptions' = EmptyMap /\ srvReqs' = <<>>)
       /\ pc' = "send" => subscriptions' = EmptyMap
       /\ \A k \in 1..Len(srvReqs') : srvReqs'[k] = k - 1
       /\ Len(srvReqs') <= Len(subscription_setups')
       /\ (pc \in {"connect", "send"} /\ pc' \in {"ack", "loop"}) =>
              Len(srvReqs') = Len(subscription_setups')]_vars

\* C2 witness: after a reconnect, both registrations have been requested again
C2_Witness ==
    /\ Reconnected
    /\ pc = "ack"
    /\ srvReqs = <<0, 1>>
    /\ subscriptions = EmptyMap

\* C3: while run() waits for acknowledgements, some registration has neither
\* an id nor an error yet (setup ends as soon as all of them are answered).
C3_SetupEndsWhenAllAnswered ==
    pc = "ack" => \E i \in 0..(Len(subscription_setups) - 1) : i \notin DOMAIN acked

\* C4: no handler is started during setup; the deque holds the events in
\* arrival order, all older than what the socket still holds; and while the
\* deque is not empty the event dispatched next is its oldest one, which
\* arrived after every event dispatched before on this connection.
C4_BufferedEventsReplayedFirst ==
    [][/\ pc' \in {"send", "ack"} => (handled' = {} /\ running' = {})
       /\ \A j, k \in 1..Len(queue_requests') :
              j < k => queue_requests'[j].n < queue_requests'[k].n
       /\ pc' \in {"ack", "loop", "fetch", "notify"} =>
              \A j \in 1..Len(queue_requests'), k \in 1..Len(inbox') :
                  inbox'[k].kind = "event" => queue_requests'[j].n < inbox'[k].n
       /\ (pc = "loop" /\ pc' = "fetch") =>
              /\ \A m \in handled : m < cur'.msg.n
              /\ handled' = handled \cup {cur'.msg.n}
              /\ IF queue_requests # <<>>
                 THEN /\ cur'.msg = Head(queue_requests)
                      /\ cur'.src = "buffer"
                      /\ queue_requests' = Tail(queue_requests)
                      /\ inbox' = inbox
                 ELSE /\ cur'.msg = Head(inbox)
                      /\ cur'.src = "socket"]_vars

\* C4 witness: two events were buffered during setup and the second one is
\* being replayed after the first
C4_Witness ==
    /\ pc = "fetch"
    /\ cur.src = "buffer"
    /\ cur.msg.n = 2
    /\ handled = {1, 2}

\* C5: when run() leaves a connection, no event that recv() returned for a
\* subscription with a handler is left undispatched in the replay buffer.
C5_NoEventLost ==
    pc \in {"connect", "failed"} =>
        \A k \in 1..Len(queue_requests) :
            queue_requests[k].sub \in DOMAIN subscriptions =>
                queue_requests[k].n \in handled

\* C6: the handler awaited for an event with subscription id S is the handler
\* of the registration whose request the node answered with S on this
\* connection, and every entry of the id map is such a pair.
C6_DispatchToAcknowledgedHandler ==
    /\ InHandler =>
          \E i \in DOMAIN srvAssigned :
              /\ srvAssigned[i] = cur.msg.sub
              /\ cur.handler = subscription_setups[i + 1].handler
    /\ \A sid \in DOMAIN subscriptions :
          \E i \in DOMAIN srvAssigned :
              /\ srvAssigned[i] = sid
              /\ subscriptions[sid] = subscription_setups[i + 1].handler

\* C6 witness: an event of the second registration is with its handler while
\* both registrations are active
C6_Witness ==
    /\ pc = "fetch"
    /\ Cardinality(DOMAIN subscriptions) = 2
    /\ cur.handler = 2
    /\ srvAssigned[1] = cur.msg.sub

\* C7: the id map only holds ids the node assigned on the current connection;
\* an id of the previous connection that was not assigned again resolves to
\* no handler.
C7_IdsAreConnectionScoped ==
    /\ DOMAIN subscriptions \subseteq (Range(srvAssigned) \ {0})
    /\ DOMAIN subscriptions \subseteq AckedIds(acked)
    /\ pc # "connect" =>
          \A sid \in ConnectionIds(NextFirstId(srvFirstId)) \ Range(srvAssigned) :
              sid \notin DOMAIN subscriptions

\* C7 witness: after a reconnect the map is filled again and the next message
\* carries an id that was acknowledged on the previous connection only (a
\* handler ran there, so its first id, 1, was in the map; this connection
\* hands out the ids from 2)
C7_Witness ==
    /\ Reconnected
    /\ pc = "loop"
    /\ subscriptions # EmptyMap
    /\ inbox # <<>>
    /\ Head(inbox).kind = "event"
    /\ lastExit = "handler_error"
    /\ srvFirstId = 2
    /\ Head(inbox).sub = 1

\* C8: at most one handler invocation is in progress, it is the one run()
\* awaits, and while it is in progress run() neither reads a message nor
\* starts another handler; handlers start in arrival order.
C8_OneHandlerAtATime ==
    [][/\ Cardinality(running') <= 1
       /\ running' # {} => (pc' \in {"fetch", "notify"} /\ running' = {cur'.msg.n})
       /\ (InHandler /\ pc' \in {"fetch", "notify"}) =>
              /\ cur' = cur
              /\ handled' = handled
              /\ queue_requests' = queue_requests
              /\ Len(inbox') >= Len(inbox)
       /\ (handled' # handled /\ handled \subseteq handled') =>
              \A m \in handled, n \in handled' \ handled : m < n]_vars

\* C8 witness: a handler is in progress while the next event of an active
\* subscription waits in the socket
C8_Witness ==
    /\ pc = "notify"
    /\ running = {cur.msg.n}
    /\ inbox # <<>>
    /\ Head(inbox).kind = "event"
    /\ Head(inbox).sub \in DOMAIN subscriptions

\* C9: when recv() finds the connection closed in steady state, run() goes
\* back to connecting, keeps its registrations, and the next connection can
\* always be taken (there is no retry limit).
C9_ReconnectAfterClose ==
    /\ [][(pc = "loop" /\ queue_requests = <<>> /\ inbox = <<>> /\ ~connOpen /\ pc' # pc) =>
              (pc' = "connect" /\ subscription_setups' = subscription_setups)]_vars
    /\ [](pc = "connect" => ENABLED Connect)

\* C9 witness: after a closure in steady state the registrations are
\* requested again on a new connection and the setup has completed
C9_Witness ==
    /\ lastExit = "closed"
    /\ pc = "loop"
    /\ srvReqs = <<0, 1>>
    /\ Cardinality(DOMAIN subscriptions) = 2

\* C10: a connection closed during setup never makes an exception leave run().
C10_SetupFaultRecovered == pc # "failed"

\* C11: an exception raised by the awaited handler does not leave run() and
\* the event is not retried: run() goes to the next connection of the
\* async-for with its registrations kept, the event is neither put back into
\* the deque nor into the socket, no invocation stays in progress, and the
\* next connection (which clears the map and subscribes again, C2) can always
\* be taken.
C11_HandlerExceptionReconnects ==
    /\ [][(InHandler /\ pc' \notin {"fetch", "notify", "loop"}) =>
              /\ pc' = "connect"
              /\ lastExit' = "handler_error"
              /\ subscription_setups' = subscription_setups
              /\ queue_requests' = queue_requests
              /\ inbox' = inbox
              /\ \A k \in 1..Len(queue_requests') : queue_requests'[k] # cur.msg
              /\ \A k \in 1..Len(inbox') : inbox'[k] # cur.msg
              /\ running' = {}
              /\ cur' = NoCur]_vars
    /\ [](lastExit = "handler_error" => pc # "failed")
    /\ []((pc = "connect" /\ lastExit = "handler_error") => ENABLED Connect)

\* C11 witness: after a handler raised, both registrations were requested
\* and acknowledged again on a new connection
C11_Witness ==
    /\ lastExit = "handler_error"
    /\ pc = "loop"
    /\ srvReqs = <<0, 1>>
    /\ Cardinality(DOMAIN subscriptions) = 2

\* C12: once recv() raised StopAsyncIteration in steady state, run() has
\* returned and stays so: no connection is taken, no subscribe request is
\* sent, no message is read and no handler is started, whatever the node
\* still sends.
C12_StopIsFinal ==
    /\ [](lastExit = "stopped" => pc = "stopped")
    /\ [][pc = "stopped" =>
              /\ pc' = "stopped"
              /\ srvReqs' = srvReqs
              /\ subscriptions' = subscriptions
              /\ queue_requests' = queue_requests
              /\ handled' = handled
              /\ running' = running
              /\ cur' = cur
              /\ Len(inbox') >= Len(inbox)]_vars
    /\ [](pc = "stopped" =>
              /\ running = {}
              /\ ~ENABLED Connect
              /\ ~ENABLED SendSubscriptionRequest
              /\ ~ENABLED LoopRecv
              /\ ~ENABLED LoopReplay)

\* C12 witness: run() has returned while an event of an active subscription
\* waits in the socket of the still open connection
C12_Witness ==
    /\ pc = "stopped"
    /\ connOpen
    /\ inbox # <<>>
    /\ Head(inbox).kind = "event"
    /\ Head(inbox).sub \in DOMAIN subscriptions

\* ------------------------------------------- properties of the notifier
\* the call numbers of the events in the sequence evs
EventIds(evs) == {evs[i].block_number : i \in 1..Len(evs)}

\* how often the event of call k occurs in evs
Count(evs, k) == Cardinality({i \in 1..Len(evs) : evs[i].block_number = k})

\* the events add_event has appended so far (line 46 was executed)
AddedIds == (1..ncalls) \ {arg[c].block_number : c \in Callers}

\* a task is inside _flush, between the swap and its return
InFlush(t) == tpc[t] \in {"price", "send", "body"}

\* the events a flush in progress has taken off the queue and not yet given
\* to _send
InFlight == Flatten([t \in Tasks |-> IF tpc[t] = "price" THEN events[t] ELSE <<>>])

\* C13: when the first add_event on a fresh notifier (last_sent still the
\* sentinel) gets the lock, the queue is left empty, last_sent becomes
\* non-sentinel, and before add_event returns exactly one report, made of
\* that event alone, is handed to _send.
C13_FirstAddFlushesAtOnce ==
    [][\A c \in Callers :
          /\ (tpc[c] = "lock" /\ tpc'[c] # "lock" /\ last_sent = Never) =>
                 /\ pending = <<>>
                 /\ pending' = <<>>
                 /\ last_sent' # Never
                 /\ tpc'[c] \in {"price", "send"}
                 /\ events'[c] = <<arg[c]>>
                 /\ reports' = IF tpc'[c] = "send" THEN Append(reports, <<arg[c]>>)
                               ELSE reports
          /\ (tpc[c] = "price" /\ tpc'[c] # "price") =>
                 /\ tpc'[c] = "send"
                 /\ reports' = Append(reports, events[c])
          /\ (tpc[c] = "send" /\ tpc'[c] # "send") =>
                 /\ tpc'[c] \in {"idle", "body"}
                 /\ reports' = reports
          /\ (tpc[c] = "body" /\ tpc'[c] # "body") =>
                 /\ tpc'[c] = "idle"
                 /\ reports' = reports
          /\ (InFlush(c) /\ tpc'[c] # "lock") =>
                 /\ pending' = <<>>
                 /\ last_sent' = last_sent
                 /\ last_sent' # Never]_vars

\* C13 witness: the first add_event has returned after its report with the
\* one event went to _send, with a price lookup on the way
C13_Witness ==
    /\ eth_client
    /\ Len(reports) = 1
    /\ Len(reports[1]) = 1
    /\ tpc[reports[1][1].bot_name] = "idle"
    /\ pending = <<>>
    /\ last_sent # Never

\* C14: once last_sent is non-sentinel, an add_event that gets the lock only
\* appends its event at the end of the queue and returns: nothing is sent
\* and last_sent stays.
C14_LaterAddsOnlyAppend ==
    [][\A c \in Callers :
          (tpc[c] = "lock" /\ tpc'[c] # "lock" /\ last_sent # Never) =>
              /\ pending' = Append(pending, arg[c])
              /\ reports' = reports
              /\ last_sent' = last_sent
              /\ tpc'[c] = "idle"]_vars

\* C14 witness: two add_event calls after the first flush left two events
\* pending, in arrival order
C14_Witness ==
    /\ last_sent # Never
    /\ Len(reports) = 1
    /\ Len(pending) = 2
    /\ pending[1].block_number < pending[2].block_number

\* C15: a force_flush, called directly or by run_periodic_flush, that finds
\* the queue empty returns without a price lookup and without a send, and
\* leaves the queue, last_sent and the reports as they were.
C15_FlushOfEmptyQueueIsNoOp ==
    [][\A t \in {ForceTask, PeriodicTask} :
          (tpc[t] = "lock" /\ tpc'[t] # "lock" /\ pending = <<>>) =>
              /\ pending' = <<>>
              /\ last_sent' = last_sent
              /\ reports' = reports
              /\ ~InFlush(t)'
              /\ lock' = 0]_vars

\* C15 witness: the periodic task has flushed at a boundary and sleeps again
\* while the notifier is still fresh
C15_Witness ==
    /\ tpc[PeriodicTask] = "sleep"
    /\ wake > Period
    /\ last_sent = Never
    /\ reports = <<>>
    /\ pending = <<>>

\* C16: a flush that finds events in the queue empties the queue and stamps
\* last_sent with the current time in one step, and then makes one call of
\* _send, with a report of all the events that were in the queue, in their
\* order.
C16_FlushTakesWholeQueue ==
    [][\A t \in Tasks :
          /\ (tpc[t] = "lock" /\ tpc'[t] # "lock" /\ t \notin Callers /\ pending # <<>>) =>
                 /\ InFlush(t)'
                 /\ events'[t] = pending
          /\ (tpc[t] = "lock" /\ InFlush(t)') =>
                 /\ pending' = <<>>
                 /\ last_sent' = now
                 /\ events'[t] # <<>>
                 /\ reports' = IF tpc'[t] = "send" THEN Append(reports, events'[t])
                               ELSE reports
          /\ (InFlush(t) /\ InFlush(t)') => events'[t] = events[t]
          /\ (tpc[t] = "price" /\ tpc'[t] # "price") =>
                 /\ tpc'[t] = "send"
                 /\ reports' = Append(reports, events[t])
          /\ (tpc[t] \in {"send", "body"} /\ tpc'[t] # tpc[t]) => reports' = reports]_vars

\* C16 witness: a report of two events, in arrival order, was handed to
\* _send by a flush later than the first one
C16_Witness ==
    /\ Len(reports) = 2
    /\ Len(reports[2]) = 2
    /\ reports[2][1].block_number < reports[2][2].block_number
    /\ last_sent > 1

\* C17 as stated: every event add_event has appended is, at every moment,
\* exactly once in the queue or in the reports handed to _send.
C17_PendingOrSent ==
    \A k \in AddedIds : Count(NotifierEvents, k) = 1

\* C17 as amended: every event add_event has appended is exactly once in the
\* queue, in the events of a flush in progress that has not called _send
\* yet, or in the reports handed to _send; and nothing else is there.
C17_PendingInFlightOrSent ==
    /\ \A k \in AddedIds : Count(NotifierEvents \o InFlight, k) = 1
    /\ EventIds(NotifierEvents \o InFlight) \subseteq AddedIds

\* C17 witness: a flush holds two events between the swap and _send while
\* an earlier report is out
C17_Witness ==
    /\ Len(reports) = 1
    /\ Len(InFlight) = 2
    /\ pending = <<>>

\* C18: when the periodic task is cancelled, every event that was in the
\* queue or in the flush the task was doing is afterwards in the queue or in
\* a report handed to _send.
C18_CancelLosesNoEvent ==
    [][(tpc[PeriodicTask] # "cancelled" /\ tpc'[PeriodicTask] = "cancelled") =>
          (EventIds(pending) \cup EventIds(events[PeriodicTask])) \subseteq
              (EventIds(pending') \cup EventIds(Flatten(reports')))]_vars

\* C19: at most one task is inside _flush and it holds the lock; while it is
\* there the queue and last_sent do not change; add_event flushes only when
\* it finds last_sent at the sentinel, which it then leaves for good, so of
\* the add_event calls racing on a fresh notifier exactly one flushes.
C19_LockSerialisesAddAndFlush ==
    /\ [](/\ Cardinality({t \in Tasks : InFlush(t)}) <= 1
          /\ \A t \in Tasks : InFlush(t) => lock = t
          /\ lock # 0 => InFlush(lock))
    /\ [][/\ (\E t \in Tasks : InFlush(t) /\ InFlush(t)') =>
                 (pending' = pending /\ last_sent' = last_sent)
          /\ \A c \in Callers :
                 (tpc[c] = "lock" /\ tpc'[c] # "lock") =>
                     (InFlush(c)' <=> last_sent = Never)
          /\ last_sent # Never => last_sent' # Never]_vars

\* C19 witness: two add_event calls and the periodic flush race on a fresh
\* notifier: one caller is in the first flush, the other caller and the
\* periodic task wait for the lock
C19_Witness ==
    /\ reports = <<>>
    /\ tpc[1] = "price"
    /\ tpc[2] = "lock"
    /\ tpc[PeriodicTask] = "lock"

\* events are pending while the periodic task runs and the clock can still
\* reach the next boundary
Due ==
    /\ tpc[PeriodicTask] # "idle"
    /\ pending # <<>>
    /\ NextBoundary(now) <= MaxTime

\* every event appended so far is in a report handed to _send
Delivered == AddedIds \subseteq EventIds(Flatten(reports))

C21_PriceFailureNotFatal ==
    /\ [][\A t \in Tasks :
              (tpc[t] = "price" /\ tpc'[t] # "price") =>
                  /\ tpc'[t] = "send"
                  /\ reports' = Append(reports, events[t])
                  /\ pending' = pending
                  /\ last_sent' = last_sent
                  /\ lock' = t
                  /\ events'[t] = events[t]
                  /\ eth_price' \in {NoPrice, EthPrice}
                  /\ UsdShown(eth_price') <=> eth_price' = EthPrice]_vars
    /\ [](\A t \in Tasks :
              tpc[t] \in {"price", "send"} =>
                  /\ pending = <<>>
                  /\ last_sent # Never
                  /\ last_sent <= now)
    /\ [](\A t \in Tasks : tpc[t] # "failed")

\* C21 witness: the price lookup of a flush of two events failed; the report
\* of these events, without USD conversion, is being sent
C21_Witness ==
    \E t \in Tasks :
        /\ eth_client
        /\ tpc[t] = "send"
        /\ eth_price = NoPrice
        /\ ~UsdShown(eth_price)
        /\ Len(events[t]) = 2
        /\ reports[Len(reports)] = events[t]
        /\ pending = <<>>
        /\ last_sent > 1

\* C22: whatever the outcome of the post in _send (status 200, another
\* status, an exception), the call that triggered the flush returns normally
\* and releases the lock; the events of the report are not put back into the
\* queue, no further report is handed to _send for them, and no event is ever
\* in two reports.
C22_SendFailureSwallowed ==
    /\ [][\A t \in Tasks :
              /\ (tpc[t] = "send" /\ tpc'[t] # "send") =>
                     /\ tpc'[t] \in {"body", AfterReturn(t)}
                     /\ pending' = pending
                     /\ reports' = reports
                     /\ last_sent' = last_sent
                     /\ lock' = IF tpc'[t] = "body" THEN t ELSE 0
              /\ (tpc[t] = "body" /\ tpc'[t] # "body") =>
                     /\ tpc'[t] = AfterReturn(t)
                     /\ pending' = pending
                     /\ pending' = <<>>
                     /\ reports' = reports
                     /\ last_sent' = last_sent
                     /\ lock' = 0]_vars
    /\ [](\A k \in 1..MaxAdds : Count(Flatten(reports), k) <= 1)
    /\ [](\A t \in Tasks : tpc[t] \in {"send", "body"} =>
              EventIds(events[t]) \cap EventIds(pending) = {})

\* C22 witness: the post of the periodic task's report of two events was
\* answered with a status other than 200
C22_Witness ==
    /\ tpc[PeriodicTask] = "body"
    /\ Len(events[PeriodicTask]) = 2
    /\ reports[Len(reports)] = events[PeriodicTask]
    /\ pending = <<>>

\* the monitor process has exited
Exited == \A t \in Tasks : tpc[t] = "exited"

\* C23: when the monitor process has exited, no event is left in the
\* notifier's pending queue (a final forced flush emptied it).
C23_ShutdownFlushes == Exited => pending = <<>>


\* ------------------------------------------------ properties of TxAnalyzer
\* the 20-byte value an address string spells, whatever the case of its
\* digits
AddressValue(a) == int16(a)

\* two address strings spell the same address; an absent address is equal
\* to none
SameAddress(a, b) == a # NoAddress /\ b # NoAddress /\ AddressValue(a) = AddressValue(b)

\* the transaction was sent by the watched address or to it
IsWatchedTx(tx) ==
    SameAddress(tx.from, analyzer.watched_address)
    \/ SameAddress(tx.to, analyzer.watched_address)

\* the transactions of the block that involve the watched address, in block
\* order
WatchedTxs == SelectSeq(block.transactions, IsWatchedTx)

WatchedHashes == [i \in 1..Len(WatchedTxs) |-> WatchedTxs[i].hash]

\* C24: the receipts analyze_block has asked for are those of the first
\* transactions that involve the watched address (by canonical comparison of
\* from and of a present to), each once and in block order; when it returns
\* it has asked for all of them; while it awaits a receipt, the last hash
\* asked for is that of the transaction the loop is at.
C24_ReceiptPerWatchedTx ==
    /\ Len(fetched) <= Len(WatchedHashes)
    /\ fetched = SubSeq(WatchedHashes, 1, Len(fetched))
    /\ apc = "done" => fetched = WatchedHashes
    /\ apc = "receipt" => /\ fetched # <<>>
                          /\ fetched[Len(fetched)] = block.transactions[txi].hash
                          /\ Len(receipts) = Len(fetched) - 1

\* C24 witness: analyze_block returned for a block of two contract
\* creations, the first sent by another account and skipped, the second
\* sent by the watched address (spelled in upper case) and fetched
C24_Witness ==
    /\ apc = "done"
    /\ Len(block.transactions) = 2
    /\ block.transactions[1] = [hash |-> 1, from |-> OtherAccount, to |-> NoAddress]
    /\ block.transactions[2] = [hash |-> 2, from |-> WatchedUpper, to |-> NoAddress]
    /\ fetched = <<2>>

\* C25: when analyze_block has returned, it returned None exactly if no
\* transaction of the block involves the watched address, and a summary
\* otherwise.
C25_NoneIffNoMatch ==
    apc = "done" => /\ (result = NoSummary) <=> (WatchedTxs = <<>>)
                    /\ WatchedTxs # <<>> => result.some

\* C25 witness: a summary was returned for a block whose only matching
\* transaction has no transfers
C25_Witness ==
    /\ apc = "done"
    /\ result.some
    /\ Len(transactions_details) = 1
    /\ transactions_details[1].incoming_wei = <<>>
    /\ transactions_details[1].outgoing_wei = <<>>

\* the amounts of the field of every detail, one list after the other
RECURSIVE Amounts(_, _)
Amounts(details, field) ==
    IF details = <<>> THEN <<>>
    ELSE Amounts(SubSeq(details, 1, Len(details) - 1), field) \o details[Len(details)][field]

\* f[1] + ... + f[n]
RECURSIVE SumTo(_, _)
SumTo(f, n) == IF n = 0 THEN 0 ELSE SumTo(f, n - 1) + f[n]

Total(s) == SumTo(s, Len(s))

\* C26: in the summary analyze_block returned, tx_count is the number of
\* transactions that involve the watched address, fail_count the number of
\* their receipts with status 0, total_gas_wei the sum of their gas fees,
\* net_wei_change all incoming amounts minus all outgoing amounts minus
\* total_gas_wei, and has_fails is true exactly when fail_count > 0.
C26_SummaryIsFold ==
    (apc = "done" /\ result.some) =>
        /\ result.tx_count = Len(WatchedTxs)
        /\ result.fail_count =
               Cardinality({i \in 1..Len(receipts) : int16(receipts[i].status) = 0})
        /\ result.total_gas_wei =
               Total([i \in 1..Len(receipts) |->
                         int16(receipts[i].gasUsed) * int16(receipts[i].effectiveGasPrice)])
        /\ result.net_wei_change =
               Total(Amounts(transactions_details, "incoming_wei"))
               - Total(Amounts(transactions_details, "outgoing_wei"))
               - result.total_gas_wei
        /\ result.has_fails <=> result.fail_count > 0
        /\ result.block_number = AddressValue(block.number)

\* C26 witness: a summary of two transactions, one failed without transfers
\* and one with an outgoing and an incoming transfer
C26_Witness ==
    /\ apc = "done"
    /\ result.some
    /\ result.tx_count = 2
    /\ result.fail_count = 1
    /\ \E i \in 1..2 : /\ transactions_details[i].outgoing_wei # <<>>
                       /\ transactions_details[i].incoming_wei # <<>>
    /\ result.total_gas_wei > 0


\* the log is a Transfer event of the configured token contract
IsWethTransfer(log) ==
    /\ log.topics # <<>>
    /\ int16(log.topics[1]) = int16(ERC20_TRANSFER_TOPIC)
    /\ SameAddress(log.address, analyzer.weth_contract_address)

HasNoTransferLogs(rc) == \A k \in 1..Len(rc.logs) : ~IsWethTransfer(rc.logs[k])

\* the sequence without its i-th element
Remove(s, i) == SubSeq(s, 1, i - 1) \o SubSeq(s, i + 1, Len(s))

\* C27: the detail parsed from a receipt with status "0x0" has status 0, and
\* empty incoming and outgoing lists when the receipt has no transfer logs;
\* in the summary analyze_block returned, the receipt adds one to fail_count
\* and, without transfer logs, exactly minus its gas fee to net_wei_change.
C27_FailedReceipt ==
    \A i \in 1..Len(transactions_details) :
        receipts[i].status = StatusFail =>
            LET quiet == HasNoTransferLogs(receipts[i])
                fee == int16(receipts[i].gasUsed) * int16(receipts[i].effectiveGasPrice)
                others == create_block_summary(block, Remove(transactions_details, i))
            IN  /\ transactions_details[i].status = 0
                /\ quiet => /\ transactions_details[i].incoming_wei = <<>>
                            /\ transactions_details[i].outgoing_wei = <<>>
                /\ (apc = "done") =>
                       /\ result.some
                       /\ result.has_fails
                       /\ result.fail_count = others.fail_count + 1
                       /\ quiet => result.net_wei_change = others.net_wei_change - fee

\* C27 witness: a summary of two transactions, the first with transfers, the
\* second failed and without logs
C27_Witness ==
    /\ apc = "done"
    /\ Len(receipts) = 2
    /\ receipts[1].logs # <<>>
    /\ receipts[2] = Receipt(StatusFail, <<"0", "x", "3">>, <<>>)
    /\ result.fail_count = 1
    /\ transactions_details[2].gas_fee_wei = 6


\* the topic is the 32-byte word of the watched address
IsWatchedTopic(topic) == int16(topic) = AddressValue(analyzer.watched_address)

\* the log is a Transfer of the token contract from the watched address
IsTransferFromWatched(log) == IsWethTransfer(log) /\ IsWatchedTopic(log.topics[2])

\* the log is a Transfer of the token contract to the watched address
IsTransferToWatched(log) == IsWethTransfer(log) /\ IsWatchedTopic(log.topics[3])

\* the receipt without the logs that are not Transfers of the token contract
OnlyWethTransfers(rc) == [rc EXCEPT !.logs = SelectSeq(rc.logs, IsWethTransfer)]

\* how many of the two lists the log is appended to
Appended(log) ==
    (IF IsTransferFromWatched(log) THEN 1 ELSE 0) + (IF IsTransferToWatched(log) THEN 1 ELSE 0)

\* C28: when parse_receipt has returned, its lists are those it returns for
\* the receipt without the logs of other contracts and of other events, and
\* they hold one entry for every side of a Transfer log of the token contract
\* on which the watched address stands.  (parse_receipt raises exactly when
\* the receipt has a log without topics.)
C28_OnlyWethTransfersCount ==
    /\ ppc = "returned" =>
          LET own == parse_receipt(analyzer, OnlyWethTransfers(receipt), 1)
          IN  /\ detail.incoming_wei = own.incoming_wei
              /\ detail.outgoing_wei = own.outgoing_wei
              /\ Len(detail.incoming_wei) + Len(detail.outgoing_wei) =
                     Total([k \in 1..Len(receipt.logs) |-> Appended(receipt.logs[k])])
    /\ ppc # "idle" =>
          (ppc = "raised" <=> \E k \in 1..Len(receipt.logs) : receipt.logs[k].topics = <<>>)

\* C28 witness: a receipt with a Transfer of another token to the watched
\* address and a Transfer of the token contract (its address checksummed)
\* from the watched address was parsed
C28_Witness ==
    /\ ppc = "returned"
    /\ receipt.logs = <<OtherTokenTransfer, TransferOut>>
    /\ detail.incoming_wei = <<>>
    /\ detail.outgoing_wei = <<2>>

\* the amounts of the logs that satisfy the test, in log order
AmountsWhere(logs, Test(_)) ==
    LET sel == SelectSeq(logs, Test)
    IN  [k \in 1..Len(sel) |-> int16(sel[k].data)]

\* C29: when parse_receipt has returned, outgoing holds, in log order, the
\* amounts of the Transfer logs of the token contract whose from-topic is the
\* watched address, and incoming those whose to-topic is; so a transfer of
\* the watched address to itself is in both and a transfer between other
\* accounts in neither.
C29_TransferDirection ==
    ppc = "returned" =>
        /\ detail.outgoing_wei = AmountsWhere(receipt.logs, IsTransferFromWatched)
        /\ detail.incoming_wei = AmountsWhere(receipt.logs, IsTransferToWatched)

\* C29 witness: a transfer of the watched address to itself followed by an
\* incoming transfer
C29_Witness ==
    /\ ppc = "returned"
    /\ receipt.logs = <<TransferSelf, TransferIn>>
    /\ detail.outgoing_wei = <<1>>
    /\ detail.incoming_wei = <<1, 3>>


\* the blocks of the closed range [s, e] in which the chain has a Transfer
\* log of the token contract from or to the watched address
LoggedBlocks(s, e) == {l.block : l \in {c \in chain_logs : s <= c.block /\ c.block <= e}}

\* the first and the last block of a filter sent to the node
FirstBlock(q) == int16(q.fromBlock)
LastBlock(q) == int16(q.toBlock)

\* C30: every filter get_relevant_blocks sends covers at least one and at
\* most chunk_size blocks, all in [start_block, end_block]; the filters come
\* in pairs, by from-topic and by to-topic, over the same chunk; the first
\* chunk begins at start_block and each next one right after the one before;
\* when get_relevant_blocks returns, the last chunk ended at end_block (an
\* empty range was not queried at all) and the set returned holds exactly
\* the blocks of [start_block, end_block] with a log of either kind, which
\* does not depend on chunk_size.
C30_ChunkedUnion ==
    /\ \A k \in 1..Len(queried) :
          /\ start_block <= FirstBlock(queried[k])
          /\ FirstBlock(queried[k]) <= LastBlock(queried[k])
          /\ LastBlock(queried[k]) <= end_block
          /\ LastBlock(queried[k]) - FirstBlock(queried[k]) + 1 <= chunk_size
          /\ queried[k].side = IF k % 2 = 1 THEN "from" ELSE "to"
          /\ k % 2 = 0 => /\ FirstBlock(queried[k]) = FirstBlock(queried[k - 1])
                          /\ LastBlock(queried[k]) = LastBlock(queried[k - 1])
          /\ k = 1 => FirstBlock(queried[k]) = start_block
          /\ (k % 2 = 1 /\ k > 1) => FirstBlock(queried[k]) = LastBlock(queried[k - 1]) + 1
    /\ gpc = "done" =>
          /\ block_numbers = LoggedBlocks(start_block, end_block)
          /\ Len(queried) % 2 = 0
          /\ IF start_block <= end_block
             THEN LastBlock(queried[Len(queried)]) = end_block
             ELSE queried = <<>>

\* C30 witness: get_relevant_blocks returned after more than one chunk, the
\* last one shorter than chunk_size, for a chain with a from-log and a to-log
\* in the same block of the range
C30_Witness ==
    /\ gpc = "done"
    /\ Len(queried) >= 4
    /\ chunk_size = 2
    /\ FirstBlock(queried[Len(queried)]) = LastBlock(queried[Len(queried)])
    /\ \E b \in ChainBlocks :
          /\ chain_logs = {[block |-> b, side |-> "from"], [block |-> b, side |-> "to"]}
          /\ block_numbers = {b}


\* -------------------------------------------- properties of normalize_address
\* the string without its blanks
NoBlanks(s) == SelectSeq(s, LAMBDA c : c # " ")

\* the string has the prefix 0x, in either case
HasPrefix(s) == Len(s) >= 2 /\ s[1] = "0" /\ s[2] \in {"x", "X"}

\* the hexadecimal digits an address string is written with
DigitsOf(s) ==
    LET t == NoBlanks(s)
    IN  IF HasPrefix(t) THEN [i \in 1..(Len(t) - 2) |-> t[i + 2]] ELSE t

\* the digit in lower case
LowerDigit(c) == IF c = "A" THEN "a" ELSE c

\* n zeros
Zeros(n) == [i \in 1..n |-> "0"]

\* C31 as stated: the canonical form of an address of at most 40 digits is 0x
\* followed by its digits in lower case and then by zeros up to 40 digits.
C31_PaddedOnTheRight ==
    \A i \in 1..Len(canon) :
        LET d == DigitsOf(addrs[i])
        IN  canon[i] = Prefix0x \o [k \in 1..Len(d) |-> LowerDigit(d[k])]
                                \o Zeros(AddrLen - Len(d))

\* C31 amended: the canonical form of an address of at most 40 digits is 0x
\* followed by zeros and then by its digits in lower case, 40 digits in all:
\* a shorter input is zero-padded on the left, which keeps its value.
C31_PaddedOnTheLeft ==
    \A i \in 1..Len(canon) :
        LET d == DigitsOf(addrs[i])
        IN  /\ canon[i] = Prefix0x \o Zeros(AddrLen - Len(d))
                                   \o [k \in 1..Len(d) |-> LowerDigit(d[k])]
            /\ Len(canon[i]) = AddrLen + 2
            /\ HexValue(SubSeq(canon[i], 3, Len(canon[i]))) = HexValue(lower(d))

\* C31 witness: an address of one digit, written in upper case, was
\* normalized: the zeros stand before the digit
C31_Witness ==
    /\ canon # <<>>
    /\ addrs[1] = <<"0", "x", "A">>
    /\ canon[1] = Prefix0x \o Zeros(AddrLen - 1) \o <<"a">>

\* the two strings are the same address up to the case of the letters, the
\* prefix and surrounding blanks
SameUpToCase(x, y) ==
    LET dx == DigitsOf(x)
        dy == DigitsOf(y)
    IN  /\ Len(dx) = Len(dy)
        /\ \A k \in 1..Len(dx) : LowerDigit(dx[k]) = LowerDigit(dy[k])

\* C32: normalizing a result of normalize_address gives it back, and two
\* strings that differ only in the case of their letters or in the presence
\* of the prefix have the same canonical form.
C32_IdempotentCaseInsensitive ==
    /\ renorm # <<>> => renorm = canon
    /\ (canon # <<>> /\ SameUpToCase(addrs[1], addrs[2])) => canon[1] = canon[2]

\* C32 witness: an address written in upper case with the prefix and the
\* same address in lower case without it were normalized twice
C32_Witness ==
    /\ renorm # <<>>
    /\ addrs[1] = Prefix0x \o [i \in 1..AddrLen |-> "A"]
    /\ addrs[2] = [i \in 1..AddrLen |-> "a"]
    /\ canon[1] = canon[2]
    /\ canon[1] # addrs[1]

\* 16 to the power n
RECURSIVE Pow16(_)
Pow16(n) == IF n = 0 THEN 1 ELSE 16 * Pow16(n - 1)

\* the value of the digit, in either case
DigitValue(c) ==
    CASE c \in {"a", "A"} -> 10 [] c \in {"b", "B"} -> 11 [] c \in {"c", "C"} -> 12
      [] c \in {"d", "D"} -> 13 [] c \in {"e", "E"} -> 14 [] c \in {"f", "F"} -> 15
      [] OTHER -> HexDigit(c)

\* the number a hex-encoded quantity of the node ("0x...") stands for: the
\* sum of its digits times their powers of 16
HexToInt(q) ==
    LET d == DigitsOf(q)
    IN  Total([k \in 1..Len(d) |-> DigitValue(d[k]) * Pow16(Len(d) - k)])

\* C33: when parse_receipt has returned, gas_fee_wei is the product of the
\* numbers gasUsed and effectiveGasPrice stand for, to the last digit, and the
\* status is 1 for "0x1" and 0 for "0x0".
C33_GasFeeIsExactProduct ==
    ppc = "returned" =>
        /\ detail.gas_fee_wei = HexToInt(receipt.gasUsed) * HexToInt(receipt.effectiveGasPrice)
        /\ receipt.status = StatusOk => detail.status = 1
        /\ receipt.status = StatusFail => detail.status = 0

\* C33 witness: a successful receipt with gasUsed 0x5208 (21000) and
\* effectiveGasPrice 0x10001 (65537) was parsed
C33_Witness ==
    /\ ppc = "returned"
    /\ receipt.status = StatusOk
    /\ receipt.gasUsed = <<"0", "x", "5", "2", "0", "8">>
    /\ receipt.effectiveGasPrice = <<"0", "x", "1", "0", "0", "0", "1">>
    /\ detail.gas_fee_wei = 1376277000
    /\ detail.status = 1

\* C34 as stated: a failed price lookup at the end of the backfill does not
\* raise out of analyze_from_block, and the total profit is still logged.
C34_PriceFailureNonFatal ==
    raised_in = "get_eth_price_usd" =>
        /\ bpc # "raised"
        /\ total_profit # <<>>

\* the bot names of the flushed events
FlushedNames == {flushed[i].bot_name : i \in 1..Len(flushed)}

\* where the bot name appears first among the flushed events
FirstSeen(b) ==
    CHOOSE i \in 1..Len(flushed) :
        /\ flushed[i].bot_name = b
        /\ \A j \in 1..(i - 1) : flushed[j].bot_name # b

\* the position of the bot's group: one more than the number of bot names
\* seen before it
GroupOf(b) == 1 + Cardinality({c \in FlushedNames : FirstSeen(c) < FirstSeen(b)})

\* the lines of the bot's group in the report
LinesOf(b) == SubSeq(report, 5 * (GroupOf(b) - 1) + 1, 5 * GroupOf(b))

\* the sum of a field over all flushed events of the bot
NetOf(b) ==
    Total([i \in 1..Len(flushed) |->
              IF flushed[i].bot_name = b THEN flushed[i].net_wei_change ELSE 0])

TxsOf(b) ==
    Total([i \in 1..Len(flushed) |->
              IF flushed[i].bot_name = b THEN flushed[i].tx_count ELSE 0])

FailsOf(b) ==
    Total([i \in 1..Len(flushed) |->
              IF flushed[i].bot_name = b THEN flushed[i].fail_count ELSE 0])

\* C35: the report format_report returned has one group of lines per distinct
\* bot_name, in the order in which the names first appear among the events;
\* the group's header names the bot, and its figures are the sums over all
\* events of that bot, wherever they stand among the events: the
\* transaction count, the fail count (as the difference between the count and
\* the successful ones) and the net change (its sign in the header, its value
\* rounded to the last digit shown).
C35_GroupedInFirstSeenOrder ==
    fpc = "returned" =>
        /\ Len(report) = 5 * Cardinality(FlushedNames)
        /\ \A b \in FlushedNames :
             LET g == LinesOf(b)
             IN  /\ g[1].kind = "header"
                 /\ g[1].name = upper(b)
                 /\ g[1].emoji = "profit" <=> NetOf(b) > 0
                 /\ g[1].emoji = "loss" <=> NetOf(b) < 0
                 /\ g[3].kind = "successful"
                 /\ g[3].total_txs = TxsOf(b)
                 /\ g[3].total_txs - g[3].successful = FailsOf(b)
                 /\ g[4].kind = "total"
                 /\ g[4].eth.sign = "-" <=> NetOf(b) < 0
                 /\ \/ NetOf(b) >= 0 /\
                         UnitsPerMicroEth * g[4].eth.digits - NetOf(b) \in -2..2
                    \/ NetOf(b) < 0 /\
                         UnitsPerMicroEth * g[4].eth.digits + NetOf(b) \in -2..2

\* C35 witness: the events of two bots were interleaved (first bot, second
\* bot, first bot again) and the report has the first bot's group first, with
\* the sums of its two events
C35_Witness ==
    /\ fpc = "returned"
    /\ Len(flushed) = 3
    /\ flushed[1].bot_name = "arbitrum"
    /\ flushed[2].bot_name = "ethereum"
    /\ flushed[3].bot_name = "arbitrum"
    /\ flushed[1].net_wei_change = 7
    /\ flushed[3].net_wei_change = 7
    /\ flushed[1].tx_count = 2
    /\ flushed[3].tx_count = 2
    /\ Len(report) = 10
    /\ report[1].name = "ARBITRUM"
    /\ report[3].total_txs = 4
    /\ report[3].successful = 2
    /\ report[4].eth = [sign |-> "+", digits |-> 3]
    /\ report[6].name = "ETHEREUM"

\* the fail-count line of a group (the tests look for the Russian word for
\* "failed", a colon and the count)
IsFailLine(line) == line.kind = "fails"

\* C36 as stated: in the report, the group of a bot whose events have fail
\* counts that sum to N > 0 has a fail-count line that states N, and the
\* group of a bot whose fail counts sum to zero has no fail-count line.
C36_FailCountLine ==
    fpc = "returned" =>
        \A b \in FlushedNames :
            LET g == LinesOf(b)
            IN  /\ FailsOf(b) > 0 =>
                       \E k \in 1..Len(g) : IsFailLine(g[k]) /\ g[k].count = FailsOf(b)
                /\ FailsOf(b) = 0 => \A k \in 1..Len(g) : ~IsFailLine(g[k])

\* C37: whenever no task holds the lock, a last_sent that is still the
\* "never" sentinel implies that the pending queue is empty.
C37_NeverFlushedImpliesEmpty ==
    (lock = 0 /\ last_sent = Never) => pending = <<>>

\* C37 witness: time has passed on a notifier that never flushed, the lock is
\* free, and an add_event call is waiting for it with its event
C37_Witness ==
    /\ lock = 0
    /\ last_sent = Never
    /\ pending = <<>>
    /\ now > 1
    /\ \E c \in Callers : tpc[c] = "lock" /\ arg[c] # NoEvent

\* C38: a flush in progress has stamped last_sent already, at the price
\* lookup as at the post and after a failed post, and last_sent never goes
\* back to the sentinel; when the call returns after a failed delivery the
\* queue is empty and no further report is handed to _send; an add_event that
\* gets the lock after that only appends its event, without a report; and no
\* event is ever in two reports, so the events of the failed report are not
\* sent again.
C38_StampedBeforeDelivery ==
    /\ [](\A t \in Tasks : InFlush(t) => last_sent # Never)
    /\ [][last_sent # Never => last_sent' # Never]_vars
    /\ [][\A t \in Tasks :
              (tpc[t] = "body" /\ tpc'[t] # "body") =>
                  /\ last_sent' # Never
                  /\ pending' = <<>>
                  /\ reports' = reports]_vars
    /\ [][\A c \in Callers :
              (tpc[c] = "lock" /\ tpc'[c] # "lock" /\ last_sent # Never) =>
                  /\ tpc'[c] = "idle"
                  /\ pending' = Append(pending, arg[c])
                  /\ reports' = reports]_vars
    /\ [](\A k \in 1..MaxAdds : Count(Flatten(reports), k) <= 1)

\* C38 witness: the report of the first add_event on a fresh notifier was
\* answered with a status other than 200, and the next add_event call waits
\* for the lock
C38_Witness ==
    /\ \E c \in Callers :
         /\ tpc[c] = "body"
         /\ reports = <<events[c]>>
         /\ Len(events[c]) = 1
         /\ events[c][1].block_number = 1
    /\ last_sent # Never
    /\ pending = <<>>
    /\ \E d \in Callers : tpc[d] = "lock" /\ arg[d].block_number = 2

\* run() is in steady state: in its loop, or awaiting a handler
SteadyState(p) == p \in {"loop", "fetch", "notify"}

\* the step takes a message in the steady-state loop: the oldest of the
\* deque, or else the one recv() returns
TakesMessage ==
    /\ pc = "loop"
    /\ \/ queue_requests # <<>> /\ queue_requests' = Tail(queue_requests)
       \/ queue_requests = <<>> /\ inbox # <<>> /\ inbox' = Tail(inbox)

TakenMessage == IF queue_requests # <<>> THEN Head(queue_requests) ELSE Head(inbox)

\* C39: when the steady-state loop takes a message that carries no params, or
\* whose subscription id is not in the id-to-handler map, no handler is
\* invoked and the loop is left for the next connection; and every new
\* connection starts with an empty map and no request sent, and sends the
\* requests if there are registrations.
C39_UnknownMessageReconnects ==
    /\ [][TakesMessage =>
             ((~HasParams(TakenMessage) \/ TakenMessage.sub \notin DOMAIN subscriptions) =>
                  /\ pc' = "connect"
                  /\ lastExit' = "error"
                  /\ handled' = handled
                  /\ running' = running
                  /\ cur' = cur)]_vars
    /\ [][(pc = "connect" /\ pc' # "connect") =>
              /\ subscriptions' = EmptyMap
              /\ srvReqs' = <<>>
              /\ subscription_setups # <<>> => pc' = "send"]_vars

\* C39 witness: on a connection with an active subscription the one event the
\* node sent carried an id that is not in the map; no handler ran for it and
\* run() goes to the next connection
C39_Witness ==
    /\ pc = "connect"
    /\ lastExit = "error"
    /\ Cardinality(DOMAIN subscriptions) >= 1
    /\ srvEvents = 1
    /\ handled = {}
    /\ inbox = <<>>
    /\ queue_requests = <<>>

\* C40: the registration list changes only by an append, in a step that
\* changes nothing of run(); in steady state no subscribe request is sent;
\* a registration that was not requested on this connection has no entry in
\* the id-to-handler map and its handler is not invoked; and when the requests
\* of a connection have been sent, they are the list indices 0, 1, ... of all
\* registrations, in order.
C40_RegistrationsOnlyAppended ==
    /\ [][subscription_setups' # subscription_setups =>
              /\ Len(subscription_setups') = Len(subscription_setups) + 1
              /\ SubSeq(subscription_setups', 1, Len(subscription_setups)) = subscription_setups
              /\ wsVars' = wsVars]_vars
    /\ [][(SteadyState(pc) /\ SteadyState(pc')) => srvReqs' = srvReqs]_vars
    /\ [](\A i \in 1..Len(subscription_setups) :
              (SteadyState(pc) /\ \A k \in 1..Len(srvReqs) : srvReqs[k] # i - 1) =>
                  /\ \A sid \in DOMAIN subscriptions :
                         subscriptions[sid] # subscription_setups[i].handler
                  /\ pc \in {"fetch", "notify"} => cur.handler # subscription_setups[i].handler)
    /\ [][(pc = "send" /\ pc' \in {"ack", "loop"}) =>
              srvReqs' = [k \in 1..Len(subscription_setups) |-> k - 1]]_vars

\* C40 witness: a second registration was appended while the connection was
\* in steady state with the first one subscribed; an event was handled on the
\* connection, and only the first registration was requested
C40_Witness ==
    /\ pc = "loop"
    /\ Len(subscription_setups) = 2
    /\ srvReqs = <<0>>
    /\ Cardinality(DOMAIN subscriptions) = 1
    /\ handled # {}

====
